---- MODULE Spec2Model ----
(***************************************************************************)
(* Tally-style accounting reports (Trial Balance, Balance Sheet, Profit &  *)
(* Loss) of the accounting_excel_reports addon: the three report wizards,  *)
(* the ledger they read, and the transient report-line tables they write.  *)
(*                                                                         *)
(* Amounts are integers in units of 0.005 currency units, so that the      *)
(* materiality threshold 0.01 is the integer 2 and a non-zero balance      *)
(* below the threshold (1 unit) exists.  Dates are small naturals.         *)
(***************************************************************************)
EXTENDS Integers, Sequences, FiniteSets, TLC

VARIABLES
    move_state,      \* account.move: id -> "absent" | "draft" | "posted"
    amount_residual, \* account.move.line.amount_residual of the receivable/payable line of each move
    wizard,          \* the wizard record of the session: its model and its fields
    line_table,      \* the transient report-line table of the wizard's line model, in id order
    runs,            \* history: generations run since the wizard's inputs or the ledger last changed
    probe,           \* an account handed to the three classifiers
    probe_groups     \* what the classifiers returned for it

vars == <<move_state, amount_residual, wizard, line_table, runs, probe, probe_groups>>

----------------------------------------------------------------------------
(* Bounds of the model *)

\* moves present in the ledger at once
MaxMoves == 2
\* last date of the calendar
MaxDate == 3
\* the history counter `runs` saturates here
MaxRuns == 2

----------------------------------------------------------------------------
(* Numbers and text *)

\* 0.01, the materiality threshold, in units of 0.005
Threshold == 2

Abs(x) == IF x < 0 THEN -x ELSE x

Max(a, b) == IF a >= b THEN a ELSE b

Min(a, b) == IF a <= b THEN a ELSE b

UpperCase == <<"A","B","C","D","E","F","G","H","I","J","K","L","M",
               "N","O","P","Q","R","S","T","U","V","W","X","Y","Z">>

LowerCase == <<"a","b","c","d","e","f","g","h","i","j","k","l","m",
               "n","o","p","q","r","s","t","u","v","w","x","y","z">>

\* the characters of a display name (TLC strings cannot be indexed)
Chars(n) ==
    CASE n = "Share Capital" -> <<"S","h","a","r","e"," ","C","a","p","i","t","a","l">>
      [] n = "Bank Loan" -> <<"B","a","n","k"," ","L","o","a","n">>
      [] n = "GST Payable" -> <<"G","S","T"," ","P","a","y","a","b","l","e">>
      [] n = "Creditors" -> <<"C","r","e","d","i","t","o","r","s">>
      [] n = "Debtors" -> <<"D","e","b","t","o","r","s">>
      [] n = "Cash" -> <<"C","a","s","h">>
      [] n = "Petty Cash" -> <<"P","e","t","t","y"," ","C","a","s","h">>
      [] n = "Sales" -> <<"S","a","l","e","s">>
      [] n = "Purchase" -> <<"P","u","r","c","h","a","s","e">>
      [] n = "Rent" -> <<"R","e","n","t">>
      [] n = "Guarantees" -> <<"G","u","a","r","a","n","t","e","e","s">>
      [] n = "HDFC Bank" -> <<"H","D","F","C"," ","B","a","n","k">>
      [] n = "Outstanding Payments" -> <<"O","u","t","s","t","a","n","d","i","n","g"," ","P","a","y","m","e","n","t","s">>
      [] n = "Outstanding Receipts" -> <<"O","u","t","s","t","a","n","d","i","n","g"," ","R","e","c","e","i","p","t","s">>
      [] n = "Stock Deposit" -> <<"S","t","o","c","k"," ","D","e","p","o","s","i","t">>
      [] n = "Provision for Tax" -> <<"P","r","o","v","i","s","i","o","n"," ","f","o","r"," ","T","a","x">>
      [] n = "Wholesale" -> <<"W","h","o","l","e","s","a","l","e">>
      [] n = "Suspense" -> <<"S","u","s","p","e","n","s","e">>
      [] n = "Net Profit" -> <<"N","e","t"," ","P","r","o","f","i","t">>
      [] n = "Net Loss" -> <<"N","e","t"," ","L","o","s","s">>
      [] n = "Rent Received" -> <<"R","e","n","t"," ","R","e","c","e","i","v","e","d">>
      [] OTHER -> <<>>

\* str.lower() on one character
LowerChar(c) ==
    IF \E i \in 1..26 : UpperCase[i] = c
    THEN LowerCase[CHOOSE i \in 1..26 : UpperCase[i] = c]
    ELSE c

\* (account.name or '').lower()
Lower(n) ==
    LET cs == Chars(n)
    IN  [i \in 1..Len(cs) |-> LowerChar(cs[i])]

\* Python's `pat in s` on character sequences
Contains(s, pat) ==
    \E i \in 0..(Len(s) - Len(pat)) :
        \A j \in 1..Len(pat) : s[i + j] = pat[j]

\* any(x in name for x in pats)
AnyIn(s, pats) == \E p \in pats : Contains(s, p)

----------------------------------------------------------------------------
(* Account classifiers *)

AccountTypes ==
    {"asset_receivable", "asset_cash", "asset_current", "asset_non_current",
     "asset_prepayment", "asset_fixed", "liability_payable", "liability_credit_card",
     "liability_current", "liability_non_current", "equity", "equity_unaffected",
     "income", "income_other", "expense", "expense_depreciation",
     "expense_direct_cost", "off_balance"}

\* a classifier that goes by the account code
ClassifyByCode(account) ==
    IF account.code < 3000 THEN "Current Liabilities" ELSE "Current Assets"

\* a classifier without rules
Unclassified(account) == "Miscellaneous"

\* TrialBalanceWizard._classify_account_to_tally_group
ClassifyTB(account) ==
    LET account_type == account.account_type
        name == Lower(account.name)
    IN  IF account_type = "asset_receivable" THEN "Sundry Debtors"
        ELSE IF account_type = "liability_payable" THEN "Sundry Creditors"
        ELSE IF account_type = "asset_cash" THEN
            IF Contains(name, <<"c","a","s","h">>) \/ Contains(name, <<"p","e","t","t","y">>)
            THEN "Cash-in-Hand"
            ELSE IF Contains(name, <<"b","a","n","k">>) THEN "Bank Accounts"
            ELSE "Cash-in-Hand"
        ELSE IF account_type \in {"equity", "equity_unaffected"} THEN "Capital Account"
        ELSE IF account_type \in {"liability_current", "liability_credit_card"} THEN
            IF AnyIn(name, {<<"t","a","x">>, <<"g","s","t">>, <<"v","a","t">>,
                            <<"t","d","s">>, <<"d","u","t","y">>})
            THEN "Duties & Taxes"
            ELSE IF Contains(name, <<"p","r","o","v","i","s","i","o","n">>) THEN "Provisions"
            ELSE "Current Liabilities"
        ELSE IF account_type = "liability_non_current" THEN
            IF AnyIn(name, {<<"l","o","a","n">>, <<"b","o","r","r","o","w","i","n","g">>,
                            <<"d","e","b","t">>})
            THEN "Loans (Liability)"
            ELSE "Current Liabilities"
        ELSE IF account_type \in {"asset_fixed", "asset_non_current"} THEN "Fixed Assets"
        ELSE IF account_type \in {"asset_current", "asset_prepayment"} THEN
            IF AnyIn(name, {<<"i","n","v","e","n","t","o","r","y">>, <<"s","t","o","c","k">>})
            THEN "Stock-in-Hand"
            ELSE IF AnyIn(name, {<<"d","e","p","o","s","i","t">>, <<"a","d","v","a","n","c","e">>,
                                 <<"p","r","e","p","a","i","d">>})
            THEN "Deposits (Asset)"
            ELSE IF Contains(name, <<"b","a","n","k">>) THEN "Bank Accounts"
            ELSE "Current Assets"
        ELSE IF account_type = "income" THEN
            IF AnyIn(name, {<<"s","a","l","e">>, <<"r","e","v","e","n","u","e">>,
                            <<"s","e","r","v","i","c","e"," ","i","n","c","o","m","e">>})
            THEN "Sales Accounts"
            ELSE "Direct Incomes"
        ELSE IF account_type = "income_other" THEN "Indirect Incomes"
        ELSE IF account_type = "expense_direct_cost" THEN
            IF AnyIn(name, {<<"p","u","r","c","h","a","s","e">>,
                            <<"c","o","s","t"," ","o","f"," ","g","o","o","d","s">>,
                            <<"c","o","g","s">>})
            THEN "Purchase Accounts"
            ELSE "Direct Expenses"
        ELSE IF account_type = "expense" THEN "Direct Expenses"
        ELSE IF account_type = "expense_depreciation" THEN "Indirect Expenses"
        ELSE "Miscellaneous"

\* BalanceSheetWizard._classify_bs_account_to_tally_group
ClassifyBS(account) ==
    LET account_type == account.account_type
        name == Lower(account.name)
    IN  IF account_type \in {"equity", "equity_unaffected"} THEN "Capital Account"
        ELSE IF account_type = "liability_payable" THEN "Sundry Creditors"
        ELSE IF account_type \in {"liability_current", "liability_credit_card"} THEN
            IF \/ Contains(name, <<"t","a","x">>) \/ Contains(name, <<"g","s","t">>)
               \/ Contains(name, <<"v","a","t">>) \/ Contains(name, <<"t","d","s">>)
               \/ Contains(name, <<"d","u","t","y">>)
            THEN "Duties & Taxes"
            ELSE IF Contains(name, <<"p","r","o","v","i","s","i","o","n">>) THEN "Provisions"
            ELSE "Current Liabilities"
        ELSE IF account_type = "liability_non_current" THEN
            IF \/ Contains(name, <<"l","o","a","n">>)
               \/ Contains(name, <<"b","o","r","r","o","w","i","n","g">>)
               \/ Contains(name, <<"d","e","b","t">>)
            THEN "Loans (Liability)"
            ELSE "Current Liabilities"
        ELSE IF account_type \in {"asset_fixed", "asset_non_current"} THEN "Fixed Assets"
        ELSE IF account_type = "asset_receivable" THEN "Sundry Debtors"
        ELSE IF account_type = "asset_cash" THEN
            IF Contains(name, <<"c","a","s","h">>) \/ Contains(name, <<"p","e","t","t","y">>)
            THEN "Cash-in-Hand"
            ELSE IF Contains(name, <<"b","a","n","k">>) THEN "Bank Accounts"
            ELSE "Cash-in-Hand"
        ELSE IF account_type \in {"asset_current", "asset_prepayment"} THEN
            IF Contains(name, <<"i","n","v","e","n","t","o","r","y">>)
               \/ Contains(name, <<"s","t","o","c","k">>)
            THEN "Stock-in-Hand"
            ELSE IF \/ Contains(name, <<"d","e","p","o","s","i","t">>)
                    \/ Contains(name, <<"a","d","v","a","n","c","e">>)
                    \/ Contains(name, <<"p","r","e","p","a","i","d">>)
            THEN "Deposits (Asset)"
            ELSE IF Contains(name, <<"b","a","n","k">>) THEN "Bank Accounts"
            ELSE "Current Assets"
        ELSE "Miscellaneous"

\* ProfitLossWizard._classify_pl_account_to_tally_group
ClassifyPL(account) ==
    LET name == Lower(account.name)
        acc_type == account.account_type
    IN  IF AnyIn(name, {<<"s","a","l","e">>, <<"r","e","v","e","n","u","e">>,
                        <<"s","e","r","v","i","c","e">>})
        THEN "Sales Accounts"
        ELSE IF \/ Contains(name, <<"p","u","r","c","h","a","s","e">>)
                \/ Contains(name, <<"c","o","s","t"," ","o","f"," ","g","o","o","d","s">>)
                \/ Contains(name, <<"c","o","g","s">>)
        THEN "Purchase Accounts"
        ELSE IF Contains(name, <<"d","i","r","e","c","t"," ","i","n","c","o","m","e">>)
        THEN "Direct Incomes"
        ELSE IF Contains(name, <<"d","i","r","e","c","t"," ","e","x","p","e","n","s","e">>)
        THEN "Direct Expenses"
        ELSE IF Contains(name, <<"i","n","d","i","r","e","c","t"," ","i","n","c","o","m","e">>)
        THEN "Indirect Incomes"
        ELSE IF AnyIn(name, {<<"s","a","l","a","r","y">>, <<"r","e","n","t">>,
                             <<"a","d","m","i","n">>, <<"u","t","i","l","i","t","i","e","s">>,
                             <<"d","e","p","r","e","c","i","a","t","i","o","n">>})
        THEN "Indirect Expenses"
        ELSE IF acc_type = "income" THEN "Sales Accounts"
        ELSE IF acc_type = "income_other" THEN "Indirect Incomes"
        ELSE IF acc_type = "expense_direct_cost" THEN "Direct Expenses"
        ELSE IF acc_type \in {"expense", "expense_depreciation"} THEN "Indirect Expenses"
        ELSE "Miscellaneous Expenses"

----------------------------------------------------------------------------
(* The ledger the wizards read: account.account, account.move and          *)
(* account.move.line of the host system                                    *)

\* res.company ids: the wizard's default company and another one
Companies == {1, 2}

\* account.account: id is the index; code is the numeric chart-of-accounts code
Accounts ==
    << [id |-> 1,  code |-> 1000, name |-> "Share Capital", account_type |-> "equity",                company_id |-> 1],
       [id |-> 2,  code |-> 2000, name |-> "Bank Loan",     account_type |-> "liability_non_current", company_id |-> 1],
       [id |-> 3,  code |-> 2100, name |-> "GST Payable",   account_type |-> "liability_current",     company_id |-> 1],
       [id |-> 4,  code |-> 2200, name |-> "Creditors",     account_type |-> "liability_payable",     company_id |-> 1],
       [id |-> 5,  code |-> 3000, name |-> "Debtors",       account_type |-> "asset_receivable",      company_id |-> 1],
       [id |-> 6,  code |-> 3100, name |-> "Cash",          account_type |-> "asset_cash",            company_id |-> 1],
       [id |-> 7,  code |-> 3110, name |-> "Petty Cash",    account_type |-> "asset_cash",            company_id |-> 1],
       [id |-> 8,  code |-> 4000, name |-> "Sales",         account_type |-> "income",                company_id |-> 1],
       [id |-> 9,  code |-> 5000, name |-> "Purchase",      account_type |-> "expense_direct_cost",   company_id |-> 1],
       [id |-> 10, code |-> 5100, name |-> "Rent",          account_type |-> "expense",               company_id |-> 1],
       [id |-> 11, code |-> 9000, name |-> "Guarantees",    account_type |-> "off_balance",           company_id |-> 1],
       [id |-> 12, code |-> 3100, name |-> "Cash",          account_type |-> "asset_cash",            company_id |-> 2],
       [id |-> 13, code |-> 4000, name |-> "Sales",         account_type |-> "income",                company_id |-> 2],
       [id |-> 14, code |-> 4100, name |-> "Rent Received", account_type |-> "income_other",          company_id |-> 1] >>

AccountIds == 1..Len(Accounts)

\* the journal entries that may be entered: one date, one type, one company each
Moves ==
    << \* 1: capital paid in
       [date |-> 1, move_type |-> "entry", company_id |-> 1,
        lines |-> << [account_id |-> 6, debit |-> 1000, credit |-> 0],
                     [account_id |-> 1, debit |-> 0, credit |-> 1000] >>],
       \* 2: cash sale with its purchase, in the second fiscal year
       [date |-> 3, move_type |-> "entry", company_id |-> 1,
        lines |-> << [account_id |-> 8, debit |-> 0, credit |-> 1000],
                     [account_id |-> 9, debit |-> 400, credit |-> 0],
                     [account_id |-> 6, debit |-> 600, credit |-> 0] >>],
       \* 3: customer invoice, in the first fiscal year
       [date |-> 1, move_type |-> "out_invoice", company_id |-> 1,
        lines |-> << [account_id |-> 5, debit |-> 200, credit |-> 0],
                     [account_id |-> 8, debit |-> 0, credit |-> 200] >>],
       \* 4: customer payment
       [date |-> 2, move_type |-> "entry", company_id |-> 1,
        lines |-> << [account_id |-> 6, debit |-> 80, credit |-> 0],
                     [account_id |-> 5, debit |-> 0, credit |-> 80] >>],
       \* 5: loan received
       [date |-> 1, move_type |-> "entry", company_id |-> 1,
        lines |-> << [account_id |-> 6, debit |-> 100, credit |-> 0],
                     [account_id |-> 2, debit |-> 0, credit |-> 100] >>],
       \* 6: rent paid, in the second fiscal year
       [date |-> 3, move_type |-> "entry", company_id |-> 1,
        lines |-> << [account_id |-> 10, debit |-> 30, credit |-> 0],
                     [account_id |-> 6, debit |-> 0, credit |-> 30] >>],
       \* 7: customer invoice of exactly 0.01
       [date |-> 3, move_type |-> "out_invoice", company_id |-> 1,
        lines |-> << [account_id |-> 5, debit |-> 2, credit |-> 0],
                     [account_id |-> 8, debit |-> 0, credit |-> 2] >>],
       \* 8: a rounding difference of 0.005
       [date |-> 3, move_type |-> "entry", company_id |-> 1,
        lines |-> << [account_id |-> 7, debit |-> 1, credit |-> 0],
                     [account_id |-> 8, debit |-> 0, credit |-> 1] >>],
       \* 9: tax paid in advance
       [date |-> 2, move_type |-> "entry", company_id |-> 1,
        lines |-> << [account_id |-> 3, debit |-> 50, credit |-> 0],
                     [account_id |-> 6, debit |-> 0, credit |-> 50] >>],
       \* 10: vendor bill
       [date |-> 2, move_type |-> "in_invoice", company_id |-> 1,
        lines |-> << [account_id |-> 9, debit |-> 400, credit |-> 0],
                     [account_id |-> 4, debit |-> 0, credit |-> 400] >>],
       \* 11: cash moved to the petty cash box
       [date |-> 2, move_type |-> "entry", company_id |-> 1,
        lines |-> << [account_id |-> 7, debit |-> 20, credit |-> 0],
                     [account_id |-> 6, debit |-> 0, credit |-> 20] >>],
       \* 12: an off-balance memorandum posting against cash
       [date |-> 2, move_type |-> "entry", company_id |-> 1,
        lines |-> << [account_id |-> 11, debit |-> 70, credit |-> 0],
                     [account_id |-> 6, debit |-> 0, credit |-> 70] >>],
       \* 13: a sale of the other company
       [date |-> 2, move_type |-> "entry", company_id |-> 2,
        lines |-> << [account_id |-> 12, debit |-> 500, credit |-> 0],
                     [account_id |-> 13, debit |-> 0, credit |-> 500] >> ],
       \* 14: rent received in cash, in the second fiscal year
       [date |-> 3, move_type |-> "entry", company_id |-> 1,
        lines |-> << [account_id |-> 6, debit |-> 90, credit |-> 0],
                     [account_id |-> 14, debit |-> 0, credit |-> 90] >> ] >>

MoveIds == 1..Len(Moves)

Dates == 1..MaxDate

\* first date of the second fiscal year (the first one starts at date 1)
SecondYearStart == 3

\* res.company.compute_fiscalyear_dates(date)['date_from']
FiscalYearStart(date) == IF date >= SecondYearStart THEN SecondYearStart ELSE 1

RecPayTypes == {"asset_receivable", "liability_payable"}

\* the receivable/payable line of a move is its reconcilable line
IsRecPayLine(l) == Accounts[l.account_id].account_type \in RecPayTypes

\* amount_residual of a line when it is created: its balance on a reconcilable account, else 0
InitialResidual(m) ==
    LET ls == SelectSeq(Moves[m].lines, IsRecPayLine)
    IN  IF Len(ls) = 0 THEN 0 ELSE ls[1].debit - ls[1].credit

\* line i of move m as an account.move.line record
MoveLine(m, i, ms, res) ==
    LET l == Moves[m].lines[i]
    IN  [move_id |-> m, index |-> i, account_id |-> l.account_id,
         debit |-> l.debit, credit |-> l.credit,
         date |-> Moves[m].date, state |-> ms[m], move_type |-> Moves[m].move_type,
         company_id |-> Moves[m].company_id,
         amount_residual |-> IF IsRecPayLine(l) THEN res[m] ELSE 0,
         \* the ledger is kept in the company currency
         amount_residual_currency |-> IF IsRecPayLine(l) THEN res[m] ELSE 0]

\* the account.move.line records of the moves entered so far
MoveLineSet(ms, res) ==
    UNION { { MoveLine(m, i, ms, res) : i \in 1..Len(Moves[m].lines) }
            : m \in {x \in MoveIds : ms[x] # "absent"} }

MoveLines == MoveLineSet(move_state, amount_residual)

RECURSIVE SumSet(_, _)
\* the sum of field f over a set of records
SumSet(S, f) ==
    IF S = {} THEN 0
    ELSE LET x == CHOOSE y \in S : TRUE
         IN  x[f] + SumSet(S \ {x}, f)

\* key=lambda a: (a.code or '', a.name), on the characters of the names
RECURSIVE SeqLess(_, _)
SeqLess(s, t) ==
    IF Len(t) = 0 THEN FALSE
    ELSE IF Len(s) = 0 THEN TRUE
    ELSE IF s[1] # t[1] THEN
        \* single characters of the names used here compare as in ASCII: capitals and space first
        LET Rank(c) == IF c = " " THEN 0
                       ELSE IF \E i \in 1..26 : UpperCase[i] = c
                            THEN CHOOSE i \in 1..26 : UpperCase[i] = c
                            ELSE IF \E i \in 1..26 : LowerCase[i] = c
                                 THEN 26 + (CHOOSE i \in 1..26 : LowerCase[i] = c)
                                 ELSE 60
        IN  Rank(s[1]) < Rank(t[1])
    ELSE SeqLess(Tail(s), Tail(t))

KeyLess(a, b) ==
    \/ Accounts[a].code < Accounts[b].code
    \/ Accounts[a].code = Accounts[b].code
       /\ SeqLess(Chars(Accounts[a].name), Chars(Accounts[b].name))

RECURSIVE LastFirst(_)
\* the accounts with the greatest (code, name) key first
LastFirst(S) ==
    IF S = {} THEN <<>>
    ELSE LET last == CHOOSE a \in S :
                         \A b \in S \ {a} : KeyLess(b, a) \/ (~KeyLess(a, b) /\ b < a)
         IN  <<last>> \o LastFirst(S \ {last})

RECURSIVE SortedAccounts(_)
\* sorted(accounts, key=lambda a: (a.code or '', a.name)); ties keep id order
SortedAccounts(S) ==
    IF S = {} THEN <<>>
    ELSE LET first == CHOOSE a \in S :
                          \A b \in S \ {a} : KeyLess(a, b) \/ (~KeyLess(b, a) /\ a < b)
         IN  <<first>> \o SortedAccounts(S \ {first})

\* dict.get(key, 0.0)
Get(d, k) == IF k \in DOMAIN d THEN d[k] ELSE 0

----------------------------------------------------------------------------
(* Trial Balance: balances *)

InvoiceTypes == {"out_invoice", "in_invoice", "out_refund", "in_refund",
                 "out_receipt", "in_receipt"}

\* residual = line.amount_residual_currency or line.amount_residual
LineResidual(line) ==
    IF line.amount_residual_currency # 0 THEN line.amount_residual_currency
    ELSE line.amount_residual

\* if abs(residual) > 0.01: the residuals that are added up
CountedResidual(residual) == Abs(residual) > Threshold

RECURSIVE OutstandingTotal(_)
\* the loop over move_lines adding up the residuals
OutstandingTotal(move_lines) ==
    IF move_lines = {} THEN 0
    ELSE LET line == CHOOSE l \in move_lines : TRUE
             residual == LineResidual(line)
         IN  (IF CountedResidual(residual) THEN residual ELSE 0)
             + OutstandingTotal(move_lines \ {line})

\* if abs(outstanding_total) > 0.01: the receivable/payable account gets a balance
KeepOutstanding(outstanding_total) == Abs(outstanding_total) > Threshold

\* if abs(balance) >= 0.01: the account gets a balance
KeepBalance(balance) == Abs(balance) >= Threshold

\* the search for the invoice/bill lines of a receivable/payable account
InvoiceLinesOf(lines, account_id, date_to, company_id) ==
    { l \in lines : /\ l.account_id = account_id
                    /\ l.state = "posted"
                    /\ l.date <= date_to
                    /\ l.company_id = company_id
                    /\ l.move_type \in InvoiceTypes }

\* a domain that leaves out the state of the move
AnyStateLinesOf(lines, account_id, date_to, company_id) ==
    { l \in lines : /\ l.account_id = account_id
                    /\ l.date <= date_to
                    /\ l.company_id = company_id }

\* the read_group domain of any other account
PostedLinesOf(lines, account_id, date_to, company_id) ==
    { l \in lines : /\ l.account_id = account_id
                    /\ l.state = "posted"
                    /\ l.date <= date_to
                    /\ l.company_id = company_id }

\* a balance that is debit - credit for every account, whatever has been settled
NetBalance(lines, account_id, date_to, company_id) ==
    SumSet(PostedLinesOf(lines, account_id, date_to, company_id), "debit")
    - SumSet(PostedLinesOf(lines, account_id, date_to, company_id), "credit")

\* the balance of one account as _get_account_balances and _get_closing_balances compute it
AccountBalance(lines, account_id, date_to, company_id) ==
    IF Accounts[account_id].account_type \in RecPayTypes
    THEN OutstandingTotal(InvoiceLinesOf(lines, account_id, date_to, company_id))
    ELSE LET result == PostedLinesOf(lines, account_id, date_to, company_id)
         IN  SumSet(result, "debit") - SumSet(result, "credit")

\* whether the account gets an entry in the balances dict
AccountKept(account_id, balance) ==
    IF Accounts[account_id].account_type \in RecPayTypes
    THEN KeepOutstanding(balance)
    ELSE KeepBalance(balance)

\* the balances dict over a set of accounts
BalancesOver(accounts, lines, date_to, company_id) ==
    LET bal == [a \in accounts |-> AccountBalance(lines, a, date_to, company_id)]
    IN  [a \in {x \in accounts : AccountKept(x, bal[x])} |-> bal[a]]

\* TrialBalanceWizard._get_account_balances
GetAccountBalances(lines, date_to, company_id) ==
    LET all_accounts == { a \in AccountIds : /\ Accounts[a].company_id = company_id
                                             /\ Accounts[a].account_type # "off_balance" }
    IN  BalancesOver(all_accounts, lines, date_to, company_id)

----------------------------------------------------------------------------
(* Report-line tables *)

\* create(): a field missing from the values takes the field's default
CreateRecord(defaults, vals) ==
    [f \in DOMAIN defaults |-> IF f \in DOMAIN vals THEN vals[f] ELSE defaults[f]]

\* create(list of vals): the new records get the next ids, in list order
Create(table, defaults, vals_list) ==
    table \o [i \in 1..Len(vals_list) |-> CreateRecord(defaults, vals_list[i])]

\* recordset.unlink() of the lines that `field` links to wizard `wid`
Unlink(table, field, wid) ==
    LET Stays(r) == r[field] # wid
    IN  SelectSeq(table, Stays)

RECURSIVE InsertBySequence(_, _)
\* insert r after every record whose sequence is not greater (ties: lower id first)
InsertBySequence(sorted, r) ==
    IF Len(sorted) = 0 THEN <<r>>
    ELSE IF sorted[1].sequence <= r.sequence
         THEN <<sorted[1]>> \o InsertBySequence(Tail(sorted), r)
         ELSE <<r>> \o sorted

RECURSIVE OrderBySequence(_, _)
OrderBySequence(rows, done) ==
    IF Len(rows) = 0 THEN done
    ELSE OrderBySequence(Tail(rows), InsertBySequence(done, rows[1]))

\* a One2many field read: the lines linked by `field`, in _order = 'sequence, id'
One2many(table, field, wid) ==
    LET Linked(r) == r[field] = wid
    IN  OrderBySequence(SelectSeq(table, Linked), <<>>)

\* tally.trial.balance.line
TBLineDefaults ==
    [wizard_id |-> 0, sequence |-> 10, level |-> 0, name |-> "",
     debit |-> 0, credit |-> 0, is_group |-> FALSE, is_total |-> FALSE]

\* tally.profit.loss.line
PLLineDefaults ==
    [wizard_id |-> 0, sequence |-> 10, level |-> 0, name |-> "", code |-> 0,
     amount |-> 0, is_group |-> FALSE, is_total |-> FALSE, is_net_result |-> FALSE]

\* tally.balance.sheet.line
BSLineDefaults ==
    [wizard_id |-> 0, wizard_liab_id |-> 0, wizard_asset_id |-> 0,
     sequence |-> 10, level |-> 0, name |-> "", code |-> 0,
     amount |-> 0, is_group |-> FALSE, is_total |-> FALSE]

\* accounts_by_group[group_name] |= account, for every account of the balances;
\* group_of maps each of them to the group its classifier returned
AccountsByGroup(group_of) ==
    [g \in {group_of[a] : a \in DOMAIN group_of}
        |-> {a \in DOMAIN group_of : group_of[a] = g}]

\* a lookup that keeps one account per group and drops the others
OneAccount(accounts_by_group, group_name) ==
    IF group_name \in DOMAIN accounts_by_group
    THEN {CHOOSE a \in accounts_by_group[group_name] : TRUE}
    ELSE {}

\* accounts_by_group.get(group_name): no accounts when the group is no key
GroupAccounts(accounts_by_group, group_name) ==
    IF group_name \in DOMAIN accounts_by_group THEN accounts_by_group[group_name] ELSE {}

\* an update that gives every line of the group the same sequence number
SameSequence(group_lines, link, wid, sequence) ==
    [i \in 1..Len(group_lines) |->
        [f \in DOMAIN group_lines[i] \cup {link, "sequence"} |->
            IF f = link THEN wid
            ELSE IF f = "sequence" THEN sequence + 10
            ELSE group_lines[i][f]]]

\* line_vals.update({link: wizard id, 'sequence': sequence}) over group_lines
RECURSIVE Sequenced(_, _, _, _)
Sequenced(group_lines, link, wid, sequence) ==
    IF Len(group_lines) = 0 THEN <<>>
    ELSE <<[f \in DOMAIN group_lines[1] \cup {link, "sequence"} |->
                IF f = link THEN wid
                ELSE IF f = "sequence" THEN sequence + 10
                ELSE group_lines[1][f]]>>
         \o Sequenced(Tail(group_lines), link, wid, sequence + 10)

----------------------------------------------------------------------------
(* Trial Balance: report lines *)

TBGroupOrder ==
    << "Capital Account", "Current Liabilities", "Loans (Liability)", "Sundry Creditors",
       "Duties & Taxes", "Provisions",
       "Fixed Assets", "Current Assets", "Stock-in-Hand", "Sundry Debtors", "Cash-in-Hand",
       "Bank Accounts", "Deposits (Asset)",
       "Sales Accounts", "Direct Incomes", "Indirect Incomes",
       "Purchase Accounts", "Direct Expenses", "Indirect Expenses",
       "Miscellaneous" >>

\* debit = balance if balance > 0 else 0.0
TBDebit(balance) == IF balance > 0 THEN balance ELSE 0

\* a credit column that keeps the sign of the balance
SignedCredit(balance) == IF balance < 0 THEN balance ELSE 0

\* credit = abs(balance) if balance < 0 else 0.0
TBCredit(balance) == IF balance < 0 THEN Abs(balance) ELSE 0

\* one account of a group: skipped below the threshold, else a line and its share of the totals
TBAccountStep(account, balance, acc) ==
    IF Abs(balance) < Threshold THEN acc
    ELSE [group_lines |-> Append(acc.group_lines,
              [level |-> 1, name |-> "  " \o account.name,
               debit |-> TBDebit(balance), credit |-> TBCredit(balance),
               is_group |-> FALSE, is_total |-> FALSE]),
          group_debit_total |-> acc.group_debit_total + TBDebit(balance),
          group_credit_total |-> acc.group_credit_total + TBCredit(balance)]

RECURSIVE TBAccountLoop(_, _, _)
\* the loop over the sorted accounts of one group
TBAccountLoop(accounts, account_balances, acc) ==
    IF Len(accounts) = 0 THEN acc
    ELSE TBAccountLoop(Tail(accounts), account_balances,
             TBAccountStep(Accounts[accounts[1]],
                           Get(account_balances, accounts[1]), acc))

\* one group of group_order: its header, its account lines, its share of the grand totals
TBGroupStep(group_name, accounts_by_group, account_balances, wid, st) ==
    LET accounts == GroupAccounts(accounts_by_group, group_name)
        grp == TBAccountLoop(SortedAccounts(accounts), account_balances,
                   [group_lines |-> <<>>, group_debit_total |-> 0,
                    group_credit_total |-> 0])
    IN  IF accounts = {} \/ Len(grp.group_lines) = 0 THEN st
        ELSE [lines |-> st.lines
                  \o <<[wizard_id |-> wid, sequence |-> st.sequence + 10, level |-> 0,
                        name |-> group_name, debit |-> grp.group_debit_total,
                        credit |-> grp.group_credit_total,
                        is_group |-> TRUE, is_total |-> FALSE]>>
                  \o Sequenced(grp.group_lines, "wizard_id", wid, st.sequence + 10),
              sequence |-> st.sequence + 10 + 10 * Len(grp.group_lines),
              grand_total_debit |-> st.grand_total_debit + grp.group_debit_total,
              grand_total_credit |-> st.grand_total_credit + grp.group_credit_total]

RECURSIVE TBGroupLoop(_, _, _, _, _)
\* the loop over group_order, from group g on
TBGroupLoop(g, accounts_by_group, account_balances, wid, st) ==
    IF g > Len(TBGroupOrder) THEN st
    ELSE TBGroupLoop(g + 1, accounts_by_group, account_balances, wid,
             TBGroupStep(TBGroupOrder[g], accounts_by_group, account_balances, wid, st))

\* the values TrialBalanceWizard._prepare_report_lines hands to create()
TBReportVals(account_balances, wid) ==
    IF DOMAIN account_balances = {}
    THEN <<[wizard_id |-> wid, sequence |-> 10, level |-> 0,
            name |-> "No transactions in this period", debit |-> 0, credit |-> 0,
            is_group |-> FALSE, is_total |-> FALSE]>>
    ELSE LET accounts_by_group == AccountsByGroup([a \in DOMAIN account_balances |-> ClassifyTB(Accounts[a])])
             st == TBGroupLoop(1, accounts_by_group, account_balances, wid,
                       [lines |-> <<>>, sequence |-> 0,
                        grand_total_debit |-> 0, grand_total_credit |-> 0])
         IN  st.lines
             \o <<[wizard_id |-> wid, sequence |-> st.sequence + 10, level |-> 0,
                   name |-> "Total", debit |-> st.grand_total_debit,
                   credit |-> st.grand_total_credit,
                   is_group |-> FALSE, is_total |-> TRUE]>>

\* a generator that forgets to discard the previous lines
KeepOldLines(table, wid) == table

\* self.line_ids.unlink() of TrialBalanceWizard._prepare_report_lines
TBUnlinkOld(table, wid) == Unlink(table, "wizard_id", wid)

\* TrialBalanceWizard._prepare_report_lines: the line table it leaves
TBPrepareReportLines(table, wiz, lines) ==
    Create(TBUnlinkOld(table, wiz.id), TBLineDefaults,
           TBReportVals(GetAccountBalances(lines, wiz.end_date, wiz.company_id), wiz.id))

----------------------------------------------------------------------------
(* Balance Sheet: balances and the period result *)

BSAccountTypes ==
    {"asset_receivable", "asset_cash", "asset_current", "asset_prepayment",
     "asset_fixed", "asset_non_current",
     "liability_payable", "liability_current", "liability_non_current",
     "liability_credit_card", "equity", "equity_unaffected"}

PLAccountTypes ==
    {"income", "income_other", "expense_direct_cost", "expense", "expense_depreciation"}

IncomeTypes == {"income", "income_other"}

\* BalanceSheetWizard._get_closing_balances
GetClosingBalances(lines, date_to, company_id) ==
    LET accounts == { a \in AccountIds : /\ Accounts[a].account_type \in BSAccountTypes
                                         /\ Accounts[a].company_id = company_id }
    IN  BalancesOver(accounts, lines, date_to, company_id)

\* the read_group of the profit-and-loss accounts over a period, grouped by account:
\* one row per account that has a matching line
PeriodReadGroup(lines, date_from, date_to, company_id) ==
    LET accounts == { a \in AccountIds : /\ Accounts[a].account_type \in PLAccountTypes
                                         /\ Accounts[a].company_id = company_id }
        Matching(a) == { l \in lines : /\ l.state = "posted"
                                       /\ l.date >= date_from
                                       /\ l.date <= date_to
                                       /\ l.company_id = company_id
                                       /\ l.account_id = a }
    IN  [a \in {x \in accounts : Matching(x) # {}} |->
            [debit |-> SumSet(Matching(a), "debit"),
             credit |-> SumSet(Matching(a), "credit")]]

\* one row of read_group_result added to income_total or expense_total
PeriodStep(account_id, debit, credit, acc) ==
    IF Accounts[account_id].account_type \in IncomeTypes
    THEN [acc EXCEPT !.income_total = @ + (credit - debit)]
    ELSE [acc EXCEPT !.expense_total = @ + (debit - credit)]

RECURSIVE PeriodTotals(_, _, _)
\* the loop over read_group_result
PeriodTotals(rows, todo, acc) ==
    IF todo = {} THEN acc
    ELSE LET account_id == CHOOSE a \in todo : TRUE
         IN  PeriodTotals(rows, todo \ {account_id},
                 PeriodStep(account_id, rows[account_id].debit,
                            rows[account_id].credit, acc))

\* a period result that is never folded in
NoPeriodResult(lines, date_from, date_to, company_id) == 0

\* BalanceSheetWizard._get_period_profit_loss
GetPeriodProfitLoss(lines, date_from, date_to, company_id) ==
    LET rows == PeriodReadGroup(lines, date_from, date_to, company_id)
        t == PeriodTotals(rows, DOMAIN rows, [income_total |-> 0, expense_total |-> 0])
    IN  t.income_total - t.expense_total

----------------------------------------------------------------------------
(* Balance Sheet: report lines *)

LiabilityGroups ==
    << "Capital Account", "Current Liabilities", "Loans (Liability)",
       "Sundry Creditors", "Duties & Taxes", "Provisions" >>

AssetGroups ==
    << "Fixed Assets", "Current Assets", "Stock-in-Hand", "Sundry Debtors",
       "Cash-in-Hand", "Bank Accounts", "Deposits (Asset)", "Miscellaneous" >>

\* amount = abs(balance): the amount of an account line
BSLineAmount(balance) == Abs(balance)

\* what an account adds to its group total: credit-positive on the liabilities
\* side (if balance < 0: += amount, else -= amount), debit-positive on the assets side
BSSigned(side, balance) ==
    IF side = "liabilities"
    THEN (IF balance < 0 THEN BSLineAmount(balance) ELSE -BSLineAmount(balance))
    ELSE (IF balance > 0 THEN BSLineAmount(balance) ELSE -BSLineAmount(balance))

\* 'amount': abs(group_total), and total += abs(group_total)
BSGroupAmount(group_total) == Abs(group_total)

\* if abs(net_profit_loss) > 0.01
ShowNetResult(net_profit_loss) == Abs(net_profit_loss) > Threshold

\* "  Net Profit" if net_profit_loss >= 0 else "  Net Loss"
NetResultName(net_profit_loss) ==
    IF net_profit_loss >= 0 THEN "  Net Profit" ELSE "  Net Loss"

\* one account of a group: skipped below the threshold, else a line and its signed share
BSAccountStep(account, balance, side, acc) ==
    IF Abs(balance) < Threshold THEN acc
    ELSE [group_lines |-> Append(acc.group_lines,
              [level |-> 1, name |-> "  " \o account.name,
               code |-> account.code, amount |-> BSLineAmount(balance),
               is_group |-> FALSE]),
          group_total |-> acc.group_total + BSSigned(side, balance)]

RECURSIVE BSAccountLoop(_, _, _, _)
\* the loop over the sorted accounts of one group
BSAccountLoop(accounts, closing_balances, side, acc) ==
    IF Len(accounts) = 0 THEN acc
    ELSE BSAccountLoop(Tail(accounts), closing_balances, side,
             BSAccountStep(Accounts[accounts[1]],
                           Get(closing_balances, accounts[1]), side, acc))

\* the Net Profit / Net Loss line beneath the Capital Account group, when shown
NetResultLines(net_profit_loss, link, wid, sequence) ==
    IF ShowNetResult(net_profit_loss)
    THEN <<[f \in {link, "sequence", "level", "name", "amount"} |->
              CASE f = link -> wid
                [] f = "sequence" -> sequence + 10
                [] f = "level" -> 1
                [] f = "name" -> NetResultName(net_profit_loss)
                [] f = "amount" -> Abs(net_profit_loss)]>>
    ELSE <<>>

\* a group header line
BSGroupHeader(link, wid, sequence, group_name, group_total) ==
    [f \in {link, "sequence", "level", "name", "amount", "is_group"} |->
        CASE f = link -> wid
          [] f = "sequence" -> sequence
          [] f = "level" -> 0
          [] f = "name" -> group_name
          [] f = "amount" -> BSGroupAmount(group_total)
          [] f = "is_group" -> TRUE]

\* a Total line
BSTotalLine(link, wid, sequence, amount) ==
    [f \in {link, "sequence", "level", "name", "amount", "is_total"} |->
        CASE f = link -> wid
          [] f = "sequence" -> sequence
          [] f = "level" -> 0
          [] f = "name" -> "Total"
          [] f = "amount" -> amount
          [] f = "is_total" -> TRUE]

\* one group with its lines appended to st = [lines, sequence, total]
BSEmitGroup(group_name, group_total, group_lines, extra, link, wid, st) ==
    [lines |-> st.lines
         \o <<BSGroupHeader(link, wid, st.sequence + 10, group_name, group_total)>>
         \o Sequenced(group_lines, link, wid, st.sequence + 10)
         \o extra,
     sequence |-> st.sequence + 10 + 10 * Len(group_lines) + 10 * Len(extra),
     total |-> st.total + BSGroupAmount(group_total)]

\* a liability group whose account loop gave grp: Capital Account always, with the
\* period result folded in; any other group when it has account lines
BSLiabilityEmit(group_name, grp, net_profit_loss, link, wid, st) ==
    IF group_name = "Capital Account"
    THEN BSEmitGroup(group_name, grp.group_total + net_profit_loss, grp.group_lines,
             NetResultLines(net_profit_loss, link, wid,
                            st.sequence + 10 + 10 * Len(grp.group_lines)),
             link, wid, st)
    ELSE IF Len(grp.group_lines) > 0
         THEN BSEmitGroup(group_name, grp.group_total, grp.group_lines, <<>>, link, wid, st)
         ELSE st

\* one group of liability_groups
BSLiabilityStep(group_name, accounts_by_group, closing_balances, net_profit_loss, link, wid, st) ==
    BSLiabilityEmit(group_name,
        BSAccountLoop(SortedAccounts(GroupAccounts(accounts_by_group, group_name)),
                      closing_balances, "liabilities",
                      [group_lines |-> <<>>, group_total |-> 0]),
        net_profit_loss, link, wid, st)

RECURSIVE BSLiabilityLoop(_, _, _, _, _, _, _)
\* the loop over liability_groups, from group g on
BSLiabilityLoop(g, accounts_by_group, closing_balances, net_profit_loss, link, wid, st) ==
    IF g > Len(LiabilityGroups) THEN st
    ELSE BSLiabilityLoop(g + 1, accounts_by_group, closing_balances, net_profit_loss,
             link, wid,
             BSLiabilityStep(LiabilityGroups[g], accounts_by_group, closing_balances,
                             net_profit_loss, link, wid, st))

\* an asset group whose account loop gave grp, when it has account lines
BSAssetEmit(group_name, grp, link, wid, st) ==
    IF Len(grp.group_lines) > 0
    THEN BSEmitGroup(group_name, grp.group_total, grp.group_lines, <<>>, link, wid, st)
    ELSE st

\* one group of asset_groups
BSAssetStep(group_name, accounts_by_group, closing_balances, link, wid, st) ==
    BSAssetEmit(group_name,
        BSAccountLoop(SortedAccounts(GroupAccounts(accounts_by_group, group_name)),
                      closing_balances, "assets",
                      [group_lines |-> <<>>, group_total |-> 0]),
        link, wid, st)

RECURSIVE BSAssetLoop(_, _, _, _, _, _)
\* the loop over asset_groups, from group g on
BSAssetLoop(g, accounts_by_group, closing_balances, link, wid, st) ==
    IF g > Len(AssetGroups) THEN st
    ELSE BSAssetLoop(g + 1, accounts_by_group, closing_balances, link, wid,
             BSAssetStep(AssetGroups[g], accounts_by_group, closing_balances,
                         link, wid, st))

\* a generator that writes nothing when closing_balances is empty
NoLines(net_profit_loss, link, wid) == <<>>

\* the report when closing_balances is empty: Capital Account, the period result, Total
BSEmptyLines(net_profit_loss, link, wid) ==
    << [f \in {link, "sequence", "level", "name", "amount", "is_group"} |->
           CASE f = link -> wid
             [] f = "sequence" -> 10
             [] f = "level" -> 0
             [] f = "name" -> "Capital Account"
             [] f = "amount" -> Abs(net_profit_loss)
             [] f = "is_group" -> TRUE],
       [f \in {link, "sequence", "level", "name", "amount"} |->
           CASE f = link -> wid
             [] f = "sequence" -> 20
             [] f = "level" -> 1
             [] f = "name" -> NetResultName(net_profit_loss)
             [] f = "amount" -> Abs(net_profit_loss)],
       BSTotalLine(link, wid, 30, Abs(net_profit_loss)) >>

\* the Total line of the vertical report: max(total_liabilities, total_assets)
VerticalTotal(liab, asset, wid) ==
    asset.lines \o <<BSTotalLine("wizard_id", wid, asset.sequence + 10,
                                 Max(liab.total, asset.total))>>

\* the assets loop of the vertical report, continuing the lines of the liabilities loop
VerticalAssets(accounts_by_group, closing_balances, wid, liab) ==
    VerticalTotal(liab,
        BSAssetLoop(1, accounts_by_group, closing_balances, "wizard_id", wid,
                    [lines |-> liab.lines, sequence |-> liab.sequence, total |-> 0]),
        wid)

\* the vertical report of a non-empty closing_balances
VerticalSides(accounts_by_group, closing_balances, net_profit_loss, wid) ==
    VerticalAssets(accounts_by_group, closing_balances, wid,
        BSLiabilityLoop(1, accounts_by_group, closing_balances, net_profit_loss,
                        "wizard_id", wid, [lines |-> <<>>, sequence |-> 0, total |-> 0]))

\* the values BalanceSheetWizard._prepare_vertical_report_lines hands to create()
VerticalVals(closing_balances, net_profit_loss, wid) ==
    IF DOMAIN closing_balances = {}
    THEN BSEmptyLines(net_profit_loss, "wizard_id", wid)
    ELSE VerticalSides(AccountsByGroup([a \in DOMAIN closing_balances |-> ClassifyBS(Accounts[a])]),
                       closing_balances, net_profit_loss, wid)

\* the two lists of the horizontal report, each closed by its own Total line
HorizontalTotals(liab, asset, wid) ==
    [liab_lines |-> liab.lines
         \o <<BSTotalLine("wizard_liab_id", wid, liab.sequence + 10, liab.total)>>,
     asset_lines |-> asset.lines
         \o <<BSTotalLine("wizard_asset_id", wid, asset.sequence + 10, asset.total)>>]

\* a horizontal report that leaves the period result out of Capital Account
SidesWithoutResult(accounts_by_group, closing_balances, net_profit_loss, wid) ==
    HorizontalTotals(
        BSLiabilityLoop(1, accounts_by_group, closing_balances, 0,
                        "wizard_liab_id", wid, [lines |-> <<>>, sequence |-> 0, total |-> 0]),
        BSAssetLoop(1, accounts_by_group, closing_balances, "wizard_asset_id", wid,
                    [lines |-> <<>>, sequence |-> 0, total |-> 0]),
        wid)

\* the horizontal report of a non-empty closing_balances
HorizontalSides(accounts_by_group, closing_balances, net_profit_loss, wid) ==
    HorizontalTotals(
        BSLiabilityLoop(1, accounts_by_group, closing_balances, net_profit_loss,
                        "wizard_liab_id", wid, [lines |-> <<>>, sequence |-> 0, total |-> 0]),
        BSAssetLoop(1, accounts_by_group, closing_balances, "wizard_asset_id", wid,
                    [lines |-> <<>>, sequence |-> 0, total |-> 0]),
        wid)

\* closing_balances and net_profit_loss as both Balance Sheet generators compute them
BSClosing(wiz, lines) == GetClosingBalances(lines, wiz.end_date, wiz.company_id)

BSNetProfitLoss(wiz, lines) ==
    GetPeriodProfitLoss(lines, FiscalYearStart(wiz.end_date), wiz.end_date, wiz.company_id)

\* self.line_ids.unlink() of _prepare_vertical_report_lines
VerticalUnlinkOld(table, wid) == Unlink(table, "wizard_id", wid)

\* BalanceSheetWizard._prepare_vertical_report_lines: the line table it leaves
PrepareVerticalReportLines(table, wiz, lines) ==
    Create(VerticalUnlinkOld(table, wiz.id), BSLineDefaults,
           VerticalVals(BSClosing(wiz, lines), BSNetProfitLoss(wiz, lines), wiz.id))

\* self.liability_line_ids.unlink(); self.asset_line_ids.unlink()
HorizontalUnlinkOld(table, wid) ==
    Unlink(Unlink(table, "wizard_liab_id", wid), "wizard_asset_id", wid)

\* liab_lines and asset_lines as _prepare_horizontal_report_lines hands them to create()
HorizontalVals(closing_balances, net_profit_loss, wid) ==
    IF DOMAIN closing_balances = {}
    THEN [liab_lines |-> BSEmptyLines(net_profit_loss, "wizard_liab_id", wid),
          asset_lines |-> <<BSTotalLine("wizard_asset_id", wid, 30, Abs(net_profit_loss))>>]
    ELSE HorizontalSides(AccountsByGroup([a \in DOMAIN closing_balances |-> ClassifyBS(Accounts[a])]),
                         closing_balances, net_profit_loss, wid)

\* create(liab_lines + asset_lines)
HorizontalCreate(table, v) == Create(table, BSLineDefaults, v.liab_lines \o v.asset_lines)

\* BalanceSheetWizard._prepare_horizontal_report_lines: the line table it leaves
PrepareHorizontalReportLines(table, wiz, lines) ==
    HorizontalCreate(HorizontalUnlinkOld(table, wiz.id),
        HorizontalVals(BSClosing(wiz, lines), BSNetProfitLoss(wiz, lines), wiz.id))

----------------------------------------------------------------------------
(* Profit & Loss *)

\* credit - debit for an income account, debit - credit for an expense account
PLNatural(account_id, debit, credit) ==
    IF Accounts[account_id].account_type \in IncomeTypes
    THEN credit - debit
    ELSE debit - credit

\* ProfitLossWizard._get_period_balances
GetPeriodBalances(lines, date_from, date_to, company_id) ==
    LET rows == PeriodReadGroup(lines, date_from, date_to, company_id)
    IN  [a \in DOMAIN rows |-> PLNatural(a, rows[a].debit, rows[a].credit)]

ExpenseGroups ==
    << "Purchase Accounts", "Direct Expenses", "Indirect Expenses", "Miscellaneous Expenses" >>

IncomeGroups == << "Sales Accounts", "Direct Incomes", "Indirect Incomes" >>

\* one account of a group: skipped below the threshold, else a line and its share of the total
PLAccountStep(account, balance, acc) ==
    IF Abs(balance) < Threshold THEN acc
    ELSE [group_lines |-> Append(acc.group_lines,
              [level |-> 1, name |-> "  " \o account.name,
               code |-> account.code, amount |-> balance,
               is_group |-> FALSE, is_total |-> FALSE]),
          group_total |-> acc.group_total + balance]

RECURSIVE PLAccountLoop(_, _, _)
\* the loop over the sorted accounts of one group
PLAccountLoop(accounts, period_balances, acc) ==
    IF Len(accounts) = 0 THEN acc
    ELSE PLAccountLoop(Tail(accounts), period_balances,
             PLAccountStep(Accounts[accounts[1]],
                           Get(period_balances, accounts[1]), acc))

\* one group, when it has account lines, appended to st = [lines, sequence, total]
PLGroupStep(group_name, accounts_by_group, period_balances, wid, st) ==
    LET accounts == GroupAccounts(accounts_by_group, group_name)
        grp == PLAccountLoop(SortedAccounts(accounts), period_balances,
                   [group_lines |-> <<>>, group_total |-> 0])
        n == Len(grp.group_lines)
    IN  IF n > 0
        THEN [lines |-> st.lines
                  \o <<[wizard_id |-> wid, sequence |-> st.sequence + 10,
                        level |-> 0, name |-> group_name,
                        amount |-> grp.group_total, is_group |-> TRUE]>>
                  \o Sequenced(grp.group_lines, "wizard_id", wid, st.sequence + 10),
              sequence |-> st.sequence + 10 + 10 * n,
              total |-> st.total + grp.group_total]
        ELSE st

RECURSIVE PLGroupLoop(_, _, _, _, _, _)
\* the loop over income_groups or expense_groups, from group g on
PLGroupLoop(groups, g, accounts_by_group, period_balances, wid, st) ==
    IF g > Len(groups) THEN st
    ELSE PLGroupLoop(groups, g + 1, accounts_by_group, period_balances, wid,
             PLGroupStep(groups[g], accounts_by_group, period_balances, wid, st))

\* the Net Profit / Net Loss line that ends the report
PLNetResultLine(net_result, wid, sequence) ==
    [wizard_id |-> wid, sequence |-> sequence, level |-> 0,
     name |-> IF net_result >= 0 THEN "Net Profit" ELSE "Net Loss",
     amount |-> IF net_result >= 0 THEN net_result ELSE Abs(net_result),
     is_net_result |-> TRUE]

\* the values ProfitLossWizard._prepare_report_lines hands to create()
PLReportVals(period_balances, wid) ==
    IF DOMAIN period_balances = {}
    THEN <<[wizard_id |-> wid, sequence |-> 10, level |-> 0,
            name |-> "No transactions in this period", amount |-> 0,
            is_group |-> FALSE, is_net_result |-> FALSE]>>
    ELSE LET accounts_by_group == AccountsByGroup([a \in DOMAIN period_balances |-> ClassifyPL(Accounts[a])])
             inc == PLGroupLoop(IncomeGroups, 1, accounts_by_group, period_balances, wid,
                        [lines |-> <<>>, sequence |-> 0, total |-> 0])
             exp == PLGroupLoop(ExpenseGroups, 1, accounts_by_group, period_balances, wid,
                        [lines |-> inc.lines, sequence |-> inc.sequence, total |-> 0])
         IN  Append(exp.lines, PLNetResultLine(inc.total - exp.total, wid, exp.sequence + 10))

\* self.line_ids.unlink() of ProfitLossWizard._prepare_report_lines
PLUnlinkOld(table, wid) == Unlink(table, "wizard_id", wid)

\* ProfitLossWizard._prepare_report_lines: the line table it leaves
PLPrepareReportLines(table, wiz, lines) ==
    Create(PLUnlinkOld(table, wiz.id), PLLineDefaults,
           PLReportVals(GetPeriodBalances(lines, wiz.start_date, wiz.end_date, wiz.company_id),
                        wiz.id))

----------------------------------------------------------------------------
(* The session: the ledger changes, the wizard is edited and run *)

\* the wizard's id
WizardId == 1

WizardModels == {"trial.balance.wizard", "balance.sheet.wizard", "profit.loss.wizard"}

\* a constraint that accepts every pair of dates
AcceptAnyDates(start_date, end_date) == TRUE

\* @api.constrains('start_date', 'end_date') _check_dates: the record is accepted
CheckDates(start_date, end_date) == ~(start_date > end_date)

\* the wizard records a user can open: the company defaults to the user's company,
\* the required dates are filled in, and _check_dates accepted them
NewWizards ==
    { [model |-> "trial.balance.wizard", id |-> WizardId, start_date |-> s, end_date |-> e,
       company_id |-> 1, file_name |-> <<>>,
       excel_file |-> <<>>]
      : s \in Dates, e \in Dates } \cup
    { [model |-> "profit.loss.wizard", id |-> WizardId, start_date |-> s, end_date |-> e,
       company_id |-> 1, file_name |-> <<>>,
       excel_file |-> <<>>]
      : s \in Dates, e \in Dates } \cup
    { [model |-> "balance.sheet.wizard", id |-> WizardId, end_date |-> e,
       company_id |-> 1, horizontal_view |-> h, file_name |-> <<>>,
       excel_file |-> <<>>]
      : e \in Dates, h \in BOOLEAN }

HasStartDate(wiz) == wiz.model # "balance.sheet.wizard"

AcceptedWizard(wiz) == HasStartDate(wiz) => CheckDates(wiz.start_date, wiz.end_date)

NoProbe == [name |-> "", account_type |-> "none"]

Init ==
    /\ move_state = [m \in MoveIds |-> "absent"]
    /\ amount_residual = [m \in MoveIds |-> 0]
    /\ wizard \in {w \in NewWizards : AcceptedWizard(w)}
    /\ line_table = <<>>
    /\ runs = 0
    /\ probe = NoProbe
    /\ probe_groups = <<>>

PresentMoves == {m \in MoveIds : move_state[m] # "absent"}

\* bound of the sessions explored: the ledger and the parameters are edited before the
\* first export, afterwards the user only views and exports
Exported == wizard.excel_file # <<>>

\* a journal entry is entered, in draft
CreateMove(m) ==
    /\ ~Exported
    /\ move_state[m] = "absent"
    /\ Cardinality(PresentMoves) < MaxMoves
    /\ move_state' = [move_state EXCEPT ![m] = "draft"]
    /\ amount_residual' = [amount_residual EXCEPT ![m] = InitialResidual(m)]
    /\ runs' = 0
    /\ UNCHANGED <<wizard, line_table, probe, probe_groups>>

\* account.move.action_post
ActionPost(m) ==
    /\ ~Exported
    /\ move_state[m] = "draft"
    /\ move_state' = [move_state EXCEPT ![m] = "posted"]
    /\ runs' = 0
    /\ UNCHANGED <<amount_residual, wizard, line_table, probe, probe_groups>>

\* the receivable/payable account of a move, 0 when it has none
RecPayAccount(m) ==
    LET ls == SelectSeq(Moves[m].lines, IsRecPayLine)
    IN  IF Len(ls) = 0 THEN 0 ELSE ls[1].account_id

\* account.move.line.reconcile of the open lines of two posted moves on one account:
\* the smaller open amount is settled on both
Reconcile(m1, m2) ==
    /\ ~Exported
    /\ move_state[m1] = "posted" /\ move_state[m2] = "posted"
    /\ RecPayAccount(m1) # 0 /\ RecPayAccount(m1) = RecPayAccount(m2)
    /\ amount_residual[m1] > 0 /\ amount_residual[m2] < 0
    /\ LET settled == Min(amount_residual[m1], -amount_residual[m2])
       IN  amount_residual' = [amount_residual EXCEPT ![m1] = @ - settled,
                                                      ![m2] = @ + settled]
    /\ runs' = 0
    /\ UNCHANGED <<move_state, wizard, line_table, probe, probe_groups>>

\* the user edits the As-on / End date; _check_dates rejects the write by raising
WriteEndDate(d) ==
    /\ ~Exported
    /\ d # wizard.end_date
    /\ AcceptedWizard([wizard EXCEPT !.end_date = d])
    /\ wizard' = [wizard EXCEPT !.end_date = d]
    /\ runs' = 0
    /\ UNCHANGED <<move_state, amount_residual, line_table, probe, probe_groups>>

\* the user edits the Start date; _check_dates rejects the write by raising
WriteStartDate(d) ==
    /\ ~Exported
    /\ HasStartDate(wizard)
    /\ d # wizard.start_date
    /\ AcceptedWizard([wizard EXCEPT !.start_date = d])
    /\ wizard' = [wizard EXCEPT !.start_date = d]
    /\ runs' = 0
    /\ UNCHANGED <<move_state, amount_residual, line_table, probe, probe_groups>>

\* the user ticks or unticks Horizontal View
WriteHorizontalView ==
    /\ ~Exported
    /\ wizard.model = "balance.sheet.wizard"
    /\ wizard' = [wizard EXCEPT !.horizontal_view = ~@]
    /\ runs' = 0
    /\ UNCHANGED <<move_state, amount_residual, line_table, probe, probe_groups>>

CompanyName(c) == IF c = 1 THEN "My Company" ELSE "Other Company"

\* TrialBalanceWizard.action_view_report
TBActionViewReport ==
    /\ wizard.model = "trial.balance.wizard"
    /\ line_table' = TBPrepareReportLines(line_table, wizard, MoveLines)
    /\ wizard' = [wizard EXCEPT !.file_name =
                     <<"Trial_Balance_", CompanyName(wizard.company_id), "_as_on_",
                       wizard.end_date>>]
    /\ runs' = Min(runs + 1, MaxRuns)
    /\ UNCHANGED <<move_state, amount_residual, probe, probe_groups>>

\* ProfitLossWizard.action_view_report
PLActionViewReport ==
    /\ wizard.model = "profit.loss.wizard"
    /\ line_table' = PLPrepareReportLines(line_table, wizard, MoveLines)
    /\ wizard' = [wizard EXCEPT !.file_name =
                     <<"Profit_Loss_", CompanyName(wizard.company_id), "_",
                       wizard.start_date, "_to_", wizard.end_date>>]
    /\ runs' = Min(runs + 1, MaxRuns)
    /\ UNCHANGED <<move_state, amount_residual, probe, probe_groups>>

\* BalanceSheetWizard.action_view_report
BSActionViewReport ==
    /\ wizard.model = "balance.sheet.wizard"
    /\ wizard' = [wizard EXCEPT !.file_name =
                     <<"Balance_Sheet_", CompanyName(wizard.company_id), "_as_on_",
                       wizard.end_date>>]
    /\ line_table' = IF wizard.horizontal_view
                     THEN PrepareHorizontalReportLines(line_table, wizard, MoveLines)
                     ELSE PrepareVerticalReportLines(line_table, wizard, MoveLines)
    /\ runs' = Min(runs + 1, MaxRuns)
    /\ UNCHANGED <<move_state, amount_residual, probe, probe_groups>>

----------------------------------------------------------------------------
(* Excel export *)

\* date.strftime(fmt)
Strftime(date, fmt) == <<fmt, date>>

\* `value if shown else ''` written to a number cell: <<>> is the empty string
Cell(value, shown) == IF shown THEN <<value>> ELSE <<>>

\* the workbook held by excel_file: sheet name, the merged title rows, the data rows
Workbook(sheet, title, rows) == <<sheet, title, rows>>

ExcelRows(file) == file[3]

\* one data row of the Trial Balance sheet
TBExcelRow(line) ==
    IF line.is_total
    THEN [name |-> line.name, debit |-> <<line.debit>>, credit |-> <<line.credit>>,
          format |-> "total"]
    ELSE IF line.is_group
    THEN [name |-> line.name, debit |-> <<line.debit>>, credit |-> <<line.credit>>,
          format |-> "group"]
    ELSE [name |-> line.name, debit |-> Cell(line.debit, line.debit # 0),
          credit |-> Cell(line.credit, line.credit # 0), format |-> "account"]

\* one data row (one side of a row) of a Balance Sheet sheet
BSExcelRow(line) ==
    IF line.is_total
    THEN [name |-> line.name, amount |-> <<line.amount>>, format |-> "total"]
    ELSE IF line.is_group
    THEN [name |-> line.name, amount |-> Cell(line.amount, line.amount > Threshold),
          format |-> "group"]
    ELSE [name |-> line.name, amount |-> Cell(line.amount, line.amount > Threshold),
          format |-> "account"]

\* one data row of the Profit & Loss sheet
PLExcelRow(line) ==
    IF line.is_net_result
    THEN [name |-> line.name, amount |-> <<line.amount>>,
          format |-> IF Contains(Chars(line.name), <<"P","r","o","f","i","t">>)
                     THEN "profit" ELSE "loss"]
    ELSE IF line.is_group
    THEN [name |-> line.name, amount |-> Cell(line.amount, line.amount # 0),
          format |-> "group"]
    ELSE [name |-> line.name, amount |-> Cell(line.amount, Abs(line.amount) > Threshold),
          format |-> "account"]

\* TrialBalanceWizard.action_download_excel, the sheet written from the lines
TBExcelFile(wiz, lines) ==
    Workbook("Trial Balance",
             <<CompanyName(wiz.company_id), "Trial Balance",
               <<"As on ", Strftime(wiz.end_date, "%d-%b-%Y")>> >>,
             [i \in 1..Len(lines) |-> TBExcelRow(lines[i])])

\* ProfitLossWizard.action_download_excel, the sheet written from the lines
PLExcelFile(wiz, lines) ==
    Workbook("Profit & Loss",
             <<CompanyName(wiz.company_id), "Profit & Loss Account",
               <<"From ", Strftime(wiz.start_date, "%d-%b-%Y"),
                 " To ", Strftime(wiz.end_date, "%d-%b-%Y")>> >>,
             [i \in 1..Len(lines) |-> PLExcelRow(lines[i])])

\* BalanceSheetWizard._download_vertical_excel
DownloadVerticalExcel(wiz, lines) ==
    Workbook("Balance Sheet",
             <<CompanyName(wiz.company_id), "Balance Sheet",
               <<"As on ", Strftime(wiz.end_date, "%d-%b-%Y")>> >>,
             [i \in 1..Len(lines) |-> BSExcelRow(lines[i])])

\* BalanceSheetWizard._download_horizontal_excel: row i holds liability line i in
\* columns A:B and asset line i in columns C:D, a side that has run out stays empty
DownloadHorizontalExcel(wiz, liab, asset) ==
    Workbook("Balance Sheet",
             <<CompanyName(wiz.company_id), "Balance Sheet",
               <<"As on ", Strftime(wiz.end_date, "%d-%b-%Y")>> >>,
             [i \in 1..Max(Len(liab), Len(asset)) |->
                 [liabilities |-> IF i <= Len(liab) THEN <<BSExcelRow(liab[i])>> ELSE <<>>,
                  assets |-> IF i <= Len(asset) THEN <<BSExcelRow(asset[i])>> ELSE <<>>]])

\* the Balance Sheet workbook of the layout the wizard asks for, from a line table
BSExcelFile(wiz, table) ==
    IF wiz.horizontal_view
    THEN DownloadHorizontalExcel(wiz, One2many(table, "wizard_liab_id", wiz.id),
                                 One2many(table, "wizard_asset_id", wiz.id))
    ELSE DownloadVerticalExcel(wiz, One2many(table, "wizard_id", wiz.id))

\* the tail of TrialBalanceWizard.action_download_excel: the table is rendered and
\* the workbook and its file name are stored on the wizard
TBWriteExcel(table) ==
    /\ line_table' = table
    /\ wizard' = [wizard EXCEPT
                     !.excel_file = TBExcelFile(wizard, One2many(table, "wizard_id", wizard.id)),
                     !.file_name = <<"Trial_Balance_", Strftime(wizard.end_date, "%d%m%Y"),
                                     ".xlsx">>]

\* TrialBalanceWizard.action_download_excel: lines are generated only when none are stored
TBActionDownloadExcel ==
    /\ wizard.model = "trial.balance.wizard"
    /\ TBWriteExcel(IF One2many(line_table, "wizard_id", wizard.id) = <<>>
                    THEN TBPrepareReportLines(line_table, wizard, MoveLines)
                    ELSE line_table)
    /\ runs' = IF One2many(line_table, "wizard_id", wizard.id) = <<>>
               THEN Min(runs + 1, MaxRuns) ELSE runs
    /\ UNCHANGED <<move_state, amount_residual, probe, probe_groups>>

\* the tail of ProfitLossWizard.action_download_excel
PLWriteExcel(table) ==
    /\ line_table' = table
    /\ wizard' = [wizard EXCEPT
                     !.excel_file = PLExcelFile(wizard, One2many(table, "wizard_id", wizard.id)),
                     !.file_name = <<"Profit_Loss_", Strftime(wizard.start_date, "%d%m%Y"),
                                     "_", Strftime(wizard.end_date, "%d%m%Y"), ".xlsx">>]

\* ProfitLossWizard.action_download_excel: lines are generated only when none are stored
PLActionDownloadExcel ==
    /\ wizard.model = "profit.loss.wizard"
    /\ PLWriteExcel(IF One2many(line_table, "wizard_id", wizard.id) = <<>>
                    THEN PLPrepareReportLines(line_table, wizard, MoveLines)
                    ELSE line_table)
    /\ runs' = IF One2many(line_table, "wizard_id", wizard.id) = <<>>
               THEN Min(runs + 1, MaxRuns) ELSE runs
    /\ UNCHANGED <<move_state, amount_residual, probe, probe_groups>>

\* the lists the Balance Sheet export of the current layout looks at are not all filled
BSExportListsMissing ==
    IF wizard.horizontal_view
    THEN \/ One2many(line_table, "wizard_liab_id", wizard.id) = <<>>
         \/ One2many(line_table, "wizard_asset_id", wizard.id) = <<>>
    ELSE One2many(line_table, "wizard_id", wizard.id) = <<>>

\* the tail of BalanceSheetWizard.action_download_excel
BSWriteExcel(table) ==
    /\ line_table' = table
    /\ wizard' = [wizard EXCEPT
                     !.excel_file = BSExcelFile(wizard, table),
                     !.file_name = <<(IF wizard.horizontal_view
                                      THEN "Balance_Sheet_Horizontal_" ELSE "Balance_Sheet_"),
                                     Strftime(wizard.end_date, "%d%m%Y"), ".xlsx">>]

\* BalanceSheetWizard.action_download_excel: the layout's lines are generated only
\* when one of the lists of that layout is empty
BSActionDownloadExcel ==
    /\ wizard.model = "balance.sheet.wizard"
    /\ BSWriteExcel(IF ~BSExportListsMissing THEN line_table
                    ELSE IF wizard.horizontal_view
                    THEN PrepareHorizontalReportLines(line_table, wizard, MoveLines)
                    ELSE PrepareVerticalReportLines(line_table, wizard, MoveLines))
    /\ runs' = IF BSExportListsMissing THEN Min(runs + 1, MaxRuns) ELSE runs
    /\ UNCHANGED <<move_state, amount_residual, probe, probe_groups>>

Next ==
    \/ \E m \in MoveIds : CreateMove(m)
    \/ \E m \in MoveIds : ActionPost(m)
    \/ \E m1, m2 \in MoveIds : Reconcile(m1, m2)
    \/ \E d \in Dates : WriteEndDate(d)
    \/ \E d \in Dates : WriteStartDate(d)
    \/ WriteHorizontalView
    \/ TBActionViewReport
    \/ PLActionViewReport
    \/ BSActionViewReport
    \/ TBActionDownloadExcel
    \/ PLActionDownloadExcel
    \/ BSActionDownloadExcel

Spec == Init /\ [][Next]_vars

----------------------------------------------------------------------------
(* The wizard's line fields, read as the views and the exports read them *)

line_ids == One2many(line_table, "wizard_id", wizard.id)

liability_line_ids == One2many(line_table, "wizard_liab_id", wizard.id)

asset_line_ids == One2many(line_table, "wizard_asset_id", wizard.id)

----------------------------------------------------------------------------
(* The classifiers on their own: any display name under any native type *)

ProbeNames ==
    {"Share Capital", "Bank Loan", "GST Payable", "Creditors", "Debtors", "Cash",
     "Petty Cash", "Sales", "Purchase", "Rent", "Guarantees", "HDFC Bank",
     "Outstanding Payments", "Outstanding Receipts", "Stock Deposit",
     "Provision for Tax", "Wholesale", "Suspense", ""}

ProbeAccounts == [name : ProbeNames, account_type : AccountTypes]

InitClassify ==
    /\ move_state = [m \in MoveIds |-> "absent"]
    /\ amount_residual = [m \in MoveIds |-> 0]
    /\ wizard = [model |-> "trial.balance.wizard", id |-> WizardId, start_date |-> 1,
                 end_date |-> 1, company_id |-> 1, file_name |-> <<>>,
                 excel_file |-> <<>>]
    /\ line_table = <<>>
    /\ runs = 0
    /\ probe \in ProbeAccounts
    /\ probe_groups = <<>>

\* the three classifiers are called on the account
ClassifyProbe ==
    /\ probe_groups = <<>>
    /\ probe_groups' = [tb |-> ClassifyTB(probe), bs |-> ClassifyBS(probe),
                        pl |-> ClassifyPL(probe)]
    /\ UNCHANGED <<move_state, amount_residual, wizard, line_table, runs, probe>>

NextClassify == ClassifyProbe

SpecClassify == InitClassify /\ [][NextClassify]_vars

----------------------------------------------------------------------------
(* Properties of the reports *)

\* the lines of the table were generated from the present ledger and parameters
Fresh == runs >= 1

IsTB == wizard.model = "trial.balance.wizard"

IsBS == wizard.model = "balance.sheet.wizard"

IsPL == wizard.model = "profit.loss.wizard"

\* the posted journal items of the wizard's company up to the as-of date,
\* on all accounts but the off-balance ones
PostedUpTo ==
    { l \in MoveLines : /\ l.state = "posted"
                        /\ l.date <= wizard.end_date
                        /\ l.company_id = wizard.company_id
                        /\ Accounts[l.account_id].account_type # "off_balance" }

LedgerBalanced == SumSet(PostedUpTo, "debit") = SumSet(PostedUpTo, "credit")

SeqNames(groups) == { groups[i] : i \in DOMAIN groups }

\* the sum of the amounts of the group headers with one of the names
HeaderTotal(lines, names) ==
    SumSet({ [index |-> i, amount |-> lines[i].amount]
             : i \in { j \in DOMAIN lines : lines[j].is_group /\ lines[j].name \in names } },
           "amount")

\* the Balance Sheet lines of the view in use
BSShown == IF wizard.horizontal_view THEN liability_line_ids \o asset_line_ids ELSE line_ids

\* the liabilities side of the Balance Sheet lines of the view in use
BSLiabShown == IF wizard.horizontal_view THEN liability_line_ids ELSE line_ids

ShownLines == IF IsBS THEN BSShown ELSE line_ids

DebitNaturalTypes ==
    {"asset_receivable", "asset_cash", "asset_current", "asset_non_current",
     "asset_prepayment", "asset_fixed", "expense", "expense_depreciation",
     "expense_direct_cost"}

CreditNaturalTypes ==
    {"liability_payable", "liability_credit_card", "liability_current",
     "liability_non_current", "equity", "equity_unaffected", "income", "income_other"}

CompanyAccounts == { a \in AccountIds : Accounts[a].company_id = wizard.company_id }

\* the posted journal items of account a that the wizard's report covers
ScopeLines(a) ==
    { l \in MoveLines : /\ l.account_id = a
                        /\ l.state = "posted"
                        /\ l.date <= wizard.end_date
                        /\ l.company_id = wizard.company_id
                        /\ (IsPL => l.date >= wizard.start_date) }

NetDebit(a) == SumSet(ScopeLines(a), "debit") - SumSet(ScopeLines(a), "credit")

\* debit - credit of an asset or expense account, credit - debit of any other
NaturalBalance(a) ==
    IF Accounts[a].account_type \in DebitNaturalTypes THEN NetDebit(a) ELSE -NetDebit(a)

\* the positions of the account lines of account a among the lines shown
AccountLines(a) ==
    { i \in DOMAIN ShownLines : /\ ShownLines[i].level = 1
                                /\ ~ShownLines[i].is_group
                                /\ ShownLines[i].name = "  " \o Accounts[a].name }

\* the amount a line shows for account a: the column of its natural side on the
\* Trial Balance, the amount elsewhere
ShownAmount(a, line) ==
    IF IsTB
    THEN (IF Accounts[a].account_type \in DebitNaturalTypes THEN line.debit ELSE line.credit)
    ELSE line.amount

\* the balances the wizard's generator works from
ReportBalances ==
    CASE IsTB -> GetAccountBalances(MoveLines, wizard.end_date, wizard.company_id)
      [] IsBS -> BSClosing(wizard, MoveLines)
      [] IsPL -> GetPeriodBalances(MoveLines, wizard.start_date, wizard.end_date,
                                   wizard.company_id)

\* a balance on the side opposite to the natural one of the account
AntiNatural(a, balance) ==
    IF IsPL THEN balance < 0
    ELSE \/ Accounts[a].account_type \in DebitNaturalTypes /\ balance < 0
         \/ Accounts[a].account_type \in CreditNaturalTypes /\ balance > 0

BSSide(a) ==
    IF ClassifyBS(Accounts[a]) \in SeqNames(LiabilityGroups) THEN "liabilities" ELSE "assets"

\* the account lines the wizard's generator makes of account a with the balance
LineFor(a, balance) ==
    CASE IsTB -> TBAccountStep(Accounts[a], balance,
                     [group_lines |-> <<>>, group_debit_total |-> 0,
                      group_credit_total |-> 0]).group_lines
      [] IsBS -> BSAccountStep(Accounts[a], balance, BSSide(a),
                     [group_lines |-> <<>>, group_total |-> 0]).group_lines
      [] IsPL -> PLAccountStep(Accounts[a], balance,
                     [group_lines |-> <<>>, group_total |-> 0]).group_lines

\* the line shows exactly the values vals
SameShown(line, vals) == \A f \in DOMAIN vals : line[f] = vals[f]

\* C1: on a ledger whose posted items up to the as-of date balance, the Total line
\* of a freshly generated Trial Balance has debit equal to credit
C1_TrialBalanceTotalBalances ==
    (Fresh /\ IsTB /\ LedgerBalanced) =>
        \A i \in DOMAIN line_ids :
            line_ids[i].is_total => line_ids[i].debit = line_ids[i].credit

\* C2: on a balanced ledger the liabilities-side total and the assets-side total of
\* a freshly generated Balance Sheet differ by less than 0.01
C2_BalanceSheetSidesAgree ==
    (Fresh /\ IsBS /\ LedgerBalanced) =>
        Abs(HeaderTotal(BSShown, SeqNames(LiabilityGroups))
            - HeaderTotal(BSShown, SeqNames(AssetGroups))) < Threshold

\* C3: in every freshly generated report, the account line of an account with a
\* positive natural balance shows that balance
C3_AccountLineShowsNaturalBalance ==
    Fresh =>
        \A a \in CompanyAccounts :
            (/\ Accounts[a].account_type \in DebitNaturalTypes \cup CreditNaturalTypes
             /\ NaturalBalance(a) > 0)
            => \A i \in AccountLines(a) : ShownAmount(a, ShownLines[i]) = NaturalBalance(a)

\* C4: in every freshly generated report, the line of an account whose balance is
\* opposite to its natural sign differs from the line the account would get with
\* the natural-sign balance of the same magnitude
C4_AntiNaturalLineDiffers ==
    Fresh =>
        \A a \in DOMAIN ReportBalances :
            (AntiNatural(a, ReportBalances[a]) /\ Abs(ReportBalances[a]) >= Threshold)
            => \A i \in AccountLines(a) :
                   ~SameShown(ShownLines[i], LineFor(a, -ReportBalances[a])[1])

\* the substrings of the name rules: bank, capital, loan, tax, debtor, creditor
NameRulePatterns ==
    { <<"b","a","n","k">>, <<"c","a","p","i","t","a","l">>, <<"l","o","a","n">>,
      <<"t","a","x">>, <<"d","e","b","t","o","r">>, <<"c","r","e","d","i","t","o","r">> }

\* C5: an account whose lower-cased name matches a name rule is classified alike
\* under every native type, by the Trial Balance and the Balance Sheet classifier
C5_NameRulesWinOverType ==
    (probe_groups # <<>> /\ AnyIn(Lower(probe.name), NameRulePatterns)) =>
        \A t \in AccountTypes :
            /\ ClassifyTB([probe EXCEPT !.account_type = t]) = probe_groups.tb
            /\ ClassifyBS([probe EXCEPT !.account_type = t]) = probe_groups.bs

\* the accounts the wizard's report collects
ScopeAccounts ==
    { a \in CompanyAccounts :
        CASE IsTB -> Accounts[a].account_type # "off_balance"
          [] IsBS -> Accounts[a].account_type \in BSAccountTypes
          [] IsPL -> Accounts[a].account_type \in PLAccountTypes }

\* the balance of account a as the report reads it from the ledger, before any
\* cutoff: its open invoice residuals for a receivable or payable on the Trial
\* Balance and the Balance Sheet, debit - credit otherwise, the period's natural
\* amount on the Profit & Loss
UncutBalance(a) ==
    IF IsPL THEN Get(ReportBalances, a)
    ELSE IF Accounts[a].account_type \in RecPayTypes
         THEN SumSet(InvoiceLinesOf(MoveLines, a, wizard.end_date, wizard.company_id),
                     "amount_residual")
         ELSE NetDebit(a)

\* C6: in every freshly generated report an account gets an account line exactly
\* when its absolute balance is at least 0.01, receivable and payable accounts
\* like all others
C6_MaterialityCutoff ==
    Fresh =>
        \A a \in ScopeAccounts :
            (Abs(UncutBalance(a)) >= Threshold) <=> (AccountLines(a) # {})

\* the ledger and the wizard's parameters stay as they are
SameInputs ==
    /\ move_state' = move_state
    /\ amount_residual' = amount_residual
    /\ [wizard' EXCEPT !.file_name = <<>>, !.excel_file = <<>>] =
           [wizard EXCEPT !.file_name = <<>>, !.excel_file = <<>>]

\* C7: generating the report again, with the ledger and the parameters unchanged
\* since the last generation, leaves the line table exactly as it was: the same
\* lines with the same sequence numbers, names, amounts and flags, none left over
C7_RegenerationIsIdempotent ==
    [][(runs >= 1 /\ runs' >= 1 /\ SameInputs) => line_table' = line_table]_vars

\* a report of several lines has been generated twice in a row
C7_Witness == runs >= 2 /\ Len(line_ids) >= 3

\* C8: in a freshly generated horizontal Balance Sheet the two lists are equally
\* long and each ends with its Total line
C8_HorizontalListsAligned ==
    (Fresh /\ IsBS /\ wizard.horizontal_view) =>
        /\ Len(liability_line_ids) = Len(asset_line_ids)
        /\ liability_line_ids[Len(liability_line_ids)].is_total
        /\ asset_line_ids[Len(asset_line_ids)].is_total

\* the credit-positive sum of the capital accounts' balances plus the signed period result
CapitalSubtotal ==
    LET closing_balances == BSClosing(wizard, MoveLines)
        capital == { a \in DOMAIN closing_balances :
                        ClassifyBS(Accounts[a]) = "Capital Account" }
    IN  SumSet({ [account_id |-> a, amount |-> -closing_balances[a]] : a \in capital },
               "amount")
        + BSNetProfitLoss(wizard, MoveLines)

CapitalHeaders ==
    { i \in DOMAIN BSLiabShown :
        BSLiabShown[i].is_group /\ BSLiabShown[i].name = "Capital Account" }

\* C9: every freshly generated Balance Sheet has exactly one Capital Account header,
\* and its amount is the credit-positive sum of the capital balances plus the
\* signed period result
C9_CapitalSubtotalSigned ==
    (Fresh /\ IsBS) =>
        /\ Cardinality(CapitalHeaders) = 1
        /\ \A i \in CapitalHeaders : BSLiabShown[i].amount = CapitalSubtotal

NetResultShown ==
    { i \in DOMAIN BSLiabShown :
        /\ BSLiabShown[i].level = 1
        /\ BSLiabShown[i].name \in {"  Net Profit", "  Net Loss"} }

\* C10: a freshly generated Balance Sheet has a Net Profit / Net Loss sub-line
\* exactly when the absolute period result exceeds 0.01, named Net Profit for a
\* positive and Net Loss for a negative result
C10_NetResultLineIffMaterial ==
    (Fresh /\ IsBS) =>
        LET net_profit_loss == BSNetProfitLoss(wizard, MoveLines)
        IN  /\ (NetResultShown # {}) <=> (Abs(net_profit_loss) > Threshold)
            /\ \A i \in NetResultShown :
                   BSLiabShown[i].name = IF net_profit_loss > 0 THEN "  Net Profit"
                                         ELSE "  Net Loss"

\* total_liabilities of the run: the sum of the liability group headers shown
TotalLiabilities == HeaderTotal(BSShown, SeqNames(LiabilityGroups))

\* total_assets of the run: the sum of the asset group headers shown
TotalAssets == HeaderTotal(BSShown, SeqNames(AssetGroups))

\* C11: every line flagged is_total of a freshly generated Balance Sheet, vertical
\* or horizontal, carries the amount max(total_liabilities, total_assets)
C11_TotalIsMaxOfSides ==
    (Fresh /\ IsBS) =>
        \A i \in DOMAIN BSShown :
            BSShown[i].is_total => BSShown[i].amount = Max(TotalLiabilities, TotalAssets)

\* the same statement for the vertical report alone
TotalIsMaxVertical ==
    (Fresh /\ IsBS /\ ~wizard.horizontal_view) =>
        \A i \in DOMAIN BSShown :
            BSShown[i].is_total => BSShown[i].amount = Max(TotalLiabilities, TotalAssets)

\* the positions of the member lines of the group header at position i: the level-1
\* lines that follow it before the next level-0 line
Members(lines, i) ==
    { j \in DOMAIN lines : /\ j > i
                           /\ lines[j].level = 1
                           /\ \A k \in (i + 1)..j : lines[k].level = 1 }

\* the sum of a column over the member lines of the group header at position i
MemberSum(lines, i, column) ==
    SumSet({ [index |-> j, value |-> lines[j][column]] : j \in Members(lines, i) }, "value")

\* the group header at position i shows the sum of its member lines in each column
HeaderIsMemberSum(lines, i) ==
    IF IsTB
    THEN /\ lines[i].debit = MemberSum(lines, i, "debit")
         /\ lines[i].credit = MemberSum(lines, i, "credit")
    ELSE lines[i].amount = MemberSum(lines, i, "amount")

\* C12: in every freshly generated report the amount on each group-header line is the
\* sum of the amounts shown on the member lines beneath it (debit and credit apart
\* on the Trial Balance; the Net Profit/Loss sub-line included under Capital Account)
C12_HeaderIsSumOfMembers ==
    Fresh => \A i \in DOMAIN ShownLines :
                 ShownLines[i].is_group => HeaderIsMemberSum(ShownLines, i)

\* the same statement for the Trial Balance and the Profit & Loss report alone
HeaderIsSumOfMembersTBPL ==
    (Fresh /\ ~IsBS) => \A i \in DOMAIN ShownLines :
                            ShownLines[i].is_group => HeaderIsMemberSum(ShownLines, i)

\* the placeholder line of an empty Trial Balance or Profit & Loss report
IsPlaceholder(line) ==
    /\ line.sequence = 10
    /\ line.level = 0
    /\ ~line.is_group
    /\ ~line.is_total
    /\ IF IsTB THEN line.debit = 0 /\ line.credit = 0
               ELSE line.amount = 0 /\ ~line.is_net_result

\* the minimal Balance Sheet: the Capital Account header, the period result, the Total
IsMinimalBalanceSheet(lines) ==
    /\ Len(lines) = 3
    /\ lines[1].name = "Capital Account" /\ lines[1].is_group /\ lines[1].level = 0
    /\ lines[2].name \in {"  Net Profit", "  Net Loss"} /\ lines[2].level = 1
    /\ lines[3].name = "Total" /\ lines[3].is_total /\ lines[3].level = 0
    /\ lines[1].amount = lines[2].amount
    /\ lines[3].amount = lines[2].amount

\* C13: a freshly generated report over an empty balance set is never empty: the Trial
\* Balance and the Profit & Loss store exactly one placeholder line (sequence 10,
\* level 0, zero amounts, no role flag), the Balance Sheet stores the Capital Account
\* header, the Net Profit/Loss line and a Total line
C13_EmptyBalancesGiveMinimalReport ==
    (Fresh /\ DOMAIN ReportBalances = {}) =>
        /\ Len(ShownLines) > 0
        /\ IsBS => IsMinimalBalanceSheet(BSLiabShown)
        /\ ~IsBS => Len(line_ids) = 1 /\ IsPlaceholder(line_ids[1])

\* a posted move is in the ledger, yet the Balance Sheet has no closing balance and
\* shows a period result that is not zero
C13_Witness ==
    /\ Fresh /\ IsBS /\ DOMAIN ReportBalances = {}
    /\ \E m \in MoveIds : move_state[m] = "posted"
    /\ Len(BSLiabShown) >= 2 /\ BSLiabShown[2].amount > 0

PostedInCompanyUpTo ==
    { l \in MoveLines : /\ l.state = "posted"
                        /\ l.date <= wizard.end_date
                        /\ l.company_id = wizard.company_id }

\* of those, the journal items dated on or after the date
PostedInCompanyFrom(date_from) == { l \in PostedInCompanyUpTo : l.date >= date_from }

\* the line table the wizard's generator writes from an empty table when the ledger
\* holds nothing but the postings that are in scope: cumulative figures from the
\* postings up to the end date, period figures from those on or after the start
\* date as well (the start of the fiscal year for the folded period result)
ScopedTable ==
    CASE IsTB -> TBPrepareReportLines(<<>>, wizard, PostedInCompanyUpTo)
      [] IsPL -> PLPrepareReportLines(<<>>, wizard, PostedInCompanyFrom(wizard.start_date))
      [] IsBS /\ wizard.horizontal_view ->
             HorizontalCreate(<<>>,
                 HorizontalVals(BSClosing(wizard, PostedInCompanyUpTo),
                     BSNetProfitLoss(wizard, PostedInCompanyFrom(FiscalYearStart(wizard.end_date))),
                     wizard.id))
      [] IsBS /\ ~wizard.horizontal_view ->
             Create(<<>>, BSLineDefaults,
                 VerticalVals(BSClosing(wizard, PostedInCompanyUpTo),
                     BSNetProfitLoss(wizard, PostedInCompanyFrom(FiscalYearStart(wizard.end_date))),
                     wizard.id))

\* the lines of a table as the view in use shows them
ShownOf(table) ==
    IF IsBS /\ wizard.horizontal_view
    THEN One2many(table, "wizard_liab_id", wizard.id)
         \o One2many(table, "wizard_asset_id", wizard.id)
    ELSE One2many(table, "wizard_id", wizard.id)

\* a journal item outside the scope of the wizard's report: in draft, dated after the
\* end date, of another company, or dated before the start of the period
OutOfScope(l) ==
    \/ l.state # "posted"
    \/ l.date > wizard.end_date
    \/ l.company_id # wizard.company_id
    \/ IsPL /\ l.date < wizard.start_date

TypeTotal(types) ==
    SumSet({ [account |-> a, value |-> NaturalBalance(a)]
             : a \in { x \in CompanyAccounts : Accounts[x].account_type \in types } },
           "value")

\* total income minus total expense of the period, by account type
PeriodResult == TypeTotal(IncomeTypes) - TypeTotal(PLAccountTypes \ IncomeTypes)

\* C16: the net-result line of a freshly generated Profit & Loss report shows the
\* period result, income (credit - debit over income-type accounts) minus expense
\* (debit - credit over expense-type accounts): 'Net Profit' with the value when it
\* is >= 0, 'Net Loss' with the absolute value otherwise, whatever the groups the
\* accounts are classified into
C16_NetResultIsIncomeMinusExpense ==
    (Fresh /\ IsPL) =>
        \A i \in DOMAIN line_ids :
            line_ids[i].is_net_result =>
                /\ line_ids[i].name = (IF PeriodResult >= 0 THEN "Net Profit" ELSE "Net Loss")
                /\ line_ids[i].amount = Abs(PeriodResult)

\* the same statement with a tolerance of one threshold on the amount
NetResultWithinThreshold ==
    (Fresh /\ IsPL) =>
        \A i \in DOMAIN line_ids :
            line_ids[i].is_net_result =>
                Abs(line_ids[i].amount - Abs(PeriodResult)) <= Threshold

\* the folded period result of the Balance Sheet is income minus expense by type
FoldedResultIsIncomeMinusExpense ==
    IsPL => GetPeriodProfitLoss(MoveLines, wizard.start_date, wizard.end_date,
                                wizard.company_id) = PeriodResult

\* the moves that are posted
PostedMoves == { m \in MoveIds : move_state[m] = "posted" }

\* the ledger of the end-to-end scenario: the only posted move is move 2 (Sales credit
\* 1000, Purchase debit 400, Cash debit 600) and the report reaches its date
SalesScenario == PostedMoves = {2} /\ wizard.end_date >= Moves[2].date

\* some Trial Balance line has the name and shows the debit and the credit
TBShows(name, debit, credit) ==
    \E i \in DOMAIN line_ids : /\ line_ids[i].name = name
                               /\ line_ids[i].debit = debit
                               /\ line_ids[i].credit = credit

\* C17: on the ledger of the end-to-end scenario the Trial Balance shows a Sales line
\* with credit 1000 and debit 0, a Purchase line with debit 400, a Cash line with
\* debit 600 and a Total line with debit = credit = 1000
C17_TrialBalanceScenario ==
    (Fresh /\ IsTB /\ SalesScenario) =>
        /\ TBShows("  Sales", 0, 1000)
        /\ TBShows("  Purchase", 400, 0)
        /\ TBShows("  Cash", 600, 0)
        /\ \A i \in DOMAIN line_ids :
               line_ids[i].is_total =>
                   /\ line_ids[i].name = "Total"
                   /\ line_ids[i].debit = 1000
                   /\ line_ids[i].credit = 1000
        /\ \E i \in DOMAIN line_ids : line_ids[i].is_total

\* the Trial Balance of the scenario has been generated
C17_Witness == Fresh /\ IsTB /\ SalesScenario /\ Len(line_ids) = 7

\* some group header of the lines has the name and shows the amount
GroupShows(lines, group_name, amount) ==
    \E i \in DOMAIN lines : /\ lines[i].is_group
                            /\ lines[i].name = group_name
                            /\ lines[i].amount = amount

\* some member line of the group has the name and shows the amount
MemberShows(lines, group_name, name, amount) ==
    \E i \in DOMAIN lines :
        /\ lines[i].is_group
        /\ lines[i].name = group_name
        /\ \E j \in Members(lines, i) : lines[j].name = name /\ lines[j].amount = amount

\* the Capital Account group shows 600, all of it the folded net profit, and both
\* sides of the Balance Sheet total 600
ScenarioFoldsProfit ==
    /\ GroupShows(BSShown, "Capital Account", 600)
    /\ MemberShows(BSShown, "Capital Account", "  Net Profit", 600)
    /\ \A a \in AccountIds : Accounts[a].account_type \in {"equity", "equity_unaffected"}
                              => AccountLines(a) = {}
    /\ TotalLiabilities = 600
    /\ TotalAssets = 600
    /\ \A i \in DOMAIN BSShown : BSShown[i].is_total => BSShown[i].amount = 600

\* C18 as the scenario is written: on the ledger of the end-to-end scenario the
\* Balance Sheet shows a Capital Account group of 600 (the net profit folded in, no
\* capital accounts), the Cash account with 600 under the Current Assets group, and
\* liabilities-side and assets-side totals of 600 each
C18_BalanceSheetScenario ==
    (Fresh /\ IsBS /\ SalesScenario) =>
        /\ ScenarioFoldsProfit
        /\ GroupShows(BSShown, "Current Assets", 600)
        /\ MemberShows(BSShown, "Current Assets", "  Cash", 600)

\* C18, amended: on that ledger the Balance Sheet shows a Capital Account group of 600
\* (the net profit folded in, no capital accounts), the Cash account, of the cash
\* type, with 600 under the Cash-in-Hand group, and both totals equal to 600
C18_BalanceSheetScenarioCashInHand ==
    (Fresh /\ IsBS /\ SalesScenario) =>
        /\ ScenarioFoldsProfit
        /\ GroupShows(BSShown, "Cash-in-Hand", 600)
        /\ MemberShows(BSShown, "Cash-in-Hand", "  Cash", 600)
        /\ ~GroupShows(BSShown, "Current Assets", 600)

\* the Balance Sheet of the scenario has been generated
C18_Witness == Fresh /\ IsBS /\ SalesScenario /\ Len(BSShown) >= 5

\* the lines a link field ties to the wizard, in emission (id) order
Emitted(field) ==
    LET Linked(r) == r[field] = wizard.id
    IN  SelectSeq(line_table, Linked)

\* the line lists of the wizard: one for a Trial Balance or a Profit & Loss report,
\* the vertical list and the two horizontal lists for a Balance Sheet
LinkFields ==
    IF IsBS THEN {"wizard_id", "wizard_liab_id", "wizard_asset_id"} ELSE {"wizard_id"}

\* consecutive lines differ by exactly 10 in sequence
StepsOfTen(lines) ==
    \A i \in 1..(Len(lines) - 1) : lines[i + 1].sequence = lines[i].sequence + 10

\* C19: within every line list emitted by one report run the sequence numbers are
\* strictly increasing in emission order, consecutive lines differ by exactly 10, and
\* reading the list ordered by sequence gives the emission order
C19_SequenceStepsOfTen ==
    \A field \in LinkFields :
        /\ StepsOfTen(Emitted(field))
        /\ \A i, j \in DOMAIN Emitted(field) :
               i < j => Emitted(field)[i].sequence < Emitted(field)[j].sequence
        /\ One2many(line_table, field, wizard.id) = Emitted(field)

\* a horizontal Balance Sheet whose two lists both hold a group with two accounts or
\* several groups
C19_Witness ==
    /\ Fresh /\ IsBS /\ wizard.horizontal_view
    /\ Len(liability_line_ids) >= 4
    /\ Len(asset_line_ids) >= 4

\* every substring a name rule of one of the three classifiers looks for
AllNamePatterns ==
    { <<"c","a","s","h">>, <<"p","e","t","t","y">>, <<"b","a","n","k">>, <<"t","a","x">>,
      <<"g","s","t">>, <<"v","a","t">>, <<"t","d","s">>, <<"d","u","t","y">>,
      <<"p","r","o","v","i","s","i","o","n">>, <<"l","o","a","n">>,
      <<"b","o","r","r","o","w","i","n","g">>, <<"d","e","b","t">>,
      <<"i","n","v","e","n","t","o","r","y">>, <<"s","t","o","c","k">>,
      <<"d","e","p","o","s","i","t">>, <<"a","d","v","a","n","c","e">>,
      <<"p","r","e","p","a","i","d">>, <<"s","a","l","e">>, <<"r","e","v","e","n","u","e">>,
      <<"s","e","r","v","i","c","e">>, <<"p","u","r","c","h","a","s","e">>,
      <<"c","o","s","t"," ","o","f"," ","g","o","o","d","s">>, <<"c","o","g","s">>,
      <<"d","i","r","e","c","t"," ","i","n","c","o","m","e">>,
      <<"d","i","r","e","c","t"," ","e","x","p","e","n","s","e">>,
      <<"s","a","l","a","r","y">>, <<"r","e","n","t">>, <<"a","d","m","i","n">>,
      <<"u","t","i","l","i","t","i","e","s">>,
      <<"d","e","p","r","e","c","i","a","t","i","o","n">> }

\* no name rule of any classifier matches the account's name
NoRuleMatches(account) == ~AnyIn(Lower(account.name), AllNamePatterns)

\* the liability types and the asset types whose branch ends in a default group
UnmatchedLiabilityTypes == {"liability_current", "liability_credit_card", "liability_non_current"}

UnmatchedAssetTypes == {"asset_current", "asset_prepayment"}

\* the types the Trial Balance classifier has a branch for
TBKnownTypes == AccountTypes \ {"off_balance"}

\* each classifier returned one of the groups its report lays out
ReturnsGroupName ==
    /\ probe_groups.tb \in SeqNames(TBGroupOrder)
    /\ probe_groups.bs \in SeqNames(LiabilityGroups) \cup SeqNames(AssetGroups)
    /\ probe_groups.pl \in SeqNames(IncomeGroups) \cup SeqNames(ExpenseGroups)

\* the terminal fallback of the Trial Balance and the Balance Sheet classifier
TerminalFallbackTBBS ==
    /\ probe.account_type \in UnmatchedLiabilityTypes =>
           probe_groups.tb = "Current Liabilities" /\ probe_groups.bs = "Current Liabilities"
    /\ probe.account_type \in UnmatchedAssetTypes =>
           probe_groups.tb = "Current Assets" /\ probe_groups.bs = "Current Assets"
    /\ probe.account_type \notin TBKnownTypes => probe_groups.tb = "Miscellaneous"
    /\ probe.account_type \notin BSAccountTypes => probe_groups.bs = "Miscellaneous"

\* C20 as stated: every classifier returns a group name for every account, and when
\* no rule matches, an unmatched liability-like type yields 'Current Liabilities', an
\* unmatched asset-like type 'Current Assets' and anything else 'Miscellaneous', in
\* the Profit & Loss classifier as in the other two
C20_ClassificationTotalWithFallback ==
    probe_groups # <<>> =>
        /\ ReturnsGroupName
        /\ NoRuleMatches(probe) =>
               /\ TerminalFallbackTBBS
               /\ probe.account_type \in UnmatchedLiabilityTypes =>
                      probe_groups.pl = "Current Liabilities"
               /\ probe.account_type \in UnmatchedAssetTypes =>
                      probe_groups.pl = "Current Assets"
               /\ probe.account_type \notin (PLAccountTypes \cup UnmatchedLiabilityTypes
                                              \cup UnmatchedAssetTypes) =>
                      probe_groups.pl = "Miscellaneous"

\* C20, amended: every classifier returns a group name for every account; when no name
\* rule matches, the Trial Balance and the Balance Sheet classifier give 'Current
\* Liabilities' for the current, credit-card and non-current liability types, 'Current
\* Assets' for the current and prepayment asset types and 'Miscellaneous' for a type
\* they have no branch for, while the Profit & Loss classifier gives 'Miscellaneous
\* Expenses' for every type that is not an income or expense type
C20_ClassificationTotalPLMiscExpenses ==
    probe_groups # <<>> =>
        /\ ReturnsGroupName
        /\ NoRuleMatches(probe) =>
               /\ TerminalFallbackTBBS
               /\ probe.account_type \notin PLAccountTypes =>
                      probe_groups.pl = "Miscellaneous Expenses"

\* an account with an empty name and a type no classifier has a branch for has been
\* classified
C20_Witness ==
    /\ probe_groups # <<>>
    /\ probe.name = ""
    /\ probe.account_type = "off_balance"

\* the classifier of the wizard's report
ClassifierOf(account) ==
    CASE IsTB -> ClassifyTB(account)
      [] IsBS -> ClassifyBS(account)
      [] IsPL -> ClassifyPL(account)

\* an account record that keeps the display name and the native type of account a
\* and nothing else of it
NameAndType(a) == [Accounts[a] EXCEPT !.id = 0, !.code = 0, !.company_id = 0]

\* the name of the group header the line at position i stands under
GroupOfLine(lines, i) ==
    LET headers == { h \in 1..i : lines[h].level = 0 /\ lines[h].is_group }
    IN  IF headers = {} THEN ""
        ELSE lines[CHOOSE h \in headers : \A k \in headers : k <= h].name

\* C21: the group of an account depends on its display name and native type only:
\* accounts with the same name and type get the same group from each classifier,
\* and in every freshly generated report, whatever the ledger, each account line
\* stands under the group the classifier gives for the name and the type alone
C21_ClassificationDeterminism ==
    /\ \A a, b \in AccountIds :
           (a < b
            /\ Accounts[a].name = Accounts[b].name
            /\ Accounts[a].account_type = Accounts[b].account_type) =>
               /\ ClassifyTB(Accounts[a]) = ClassifyTB(Accounts[b])
               /\ ClassifyBS(Accounts[a]) = ClassifyBS(Accounts[b])
               /\ ClassifyPL(Accounts[a]) = ClassifyPL(Accounts[b])
    /\ Fresh =>
           \A a \in DOMAIN ReportBalances :
               \A i \in AccountLines(a) :
                   GroupOfLine(ShownLines, i) = ClassifierOf(NameAndType(a))

\* a fresh report with the lines of two accounts
C21_Witness ==
    /\ Fresh
    /\ \E a, b \in DOMAIN ReportBalances :
           a # b /\ AccountLines(a) # {} /\ AccountLines(b) # {}

\* the compound phrases 'outstanding payment' and 'outstanding receipt'
OutstandingPayment ==
    <<"o","u","t","s","t","a","n","d","i","n","g"," ","p","a","y","m","e","n","t">>

OutstandingReceipt ==
    <<"o","u","t","s","t","a","n","d","i","n","g"," ","r","e","c","e","i","p","t">>

\* C22: under every native type, an account whose name contains 'outstanding payment'
\* is classified 'Current Liabilities' and one whose name contains 'outstanding
\* receipt' is classified 'Current Assets', by the Trial Balance and the Balance
\* Sheet classifier
C22_CompoundPhrasesFirst ==
    probe_groups # <<>> =>
        /\ Contains(Lower(probe.name), OutstandingPayment) =>
               /\ probe_groups.tb = "Current Liabilities"
               /\ probe_groups.bs = "Current Liabilities"
        /\ Contains(Lower(probe.name), OutstandingReceipt) =>
               /\ probe_groups.tb = "Current Assets"
               /\ probe_groups.bs = "Current Assets"

\* the line table one generation writes for the wizard's present parameters and the
\* present ledger when no line is stored yet
FreshTable ==
    CASE IsTB -> TBPrepareReportLines(<<>>, wizard, MoveLines)
      [] IsPL -> PLPrepareReportLines(<<>>, wizard, MoveLines)
      [] IsBS /\ wizard.horizontal_view -> PrepareHorizontalReportLines(<<>>, wizard, MoveLines)
      [] IsBS /\ ~wizard.horizontal_view -> PrepareVerticalReportLines(<<>>, wizard, MoveLines)

\* C23: after any sequence of generations, parameter changes and view switches, the
\* lines attached to the wizard right after a generation are exactly the lines that
\* generation produced: no line of an earlier run remains
C23_LinesReplacedAsAWhole ==
    Fresh => line_table = FreshTable

\* the same statement for the Trial Balance and the Profit & Loss wizard alone
LinesReplacedAsAWholeTBPL ==
    (Fresh /\ ~IsBS) => line_table = FreshTable

\* the same statement for the Balance Sheet, of the lines of the view in use alone
ShownLinesReplacedAsAWhole ==
    (Fresh /\ IsBS) => BSShown = ShownOf(FreshTable)

\* C24: the balance the Trial Balance and the Balance Sheet work from is, for every
\* account, receivable and payable accounts included, debit - credit over its posted
\* postings up to the end date, whatever has been settled
C24_TrueNetBalance ==
    (Fresh /\ (IsTB \/ IsBS)) =>
        \A a \in ScopeAccounts :
            /\ a \in DOMAIN ReportBalances => ReportBalances[a] = NetDebit(a)
            /\ Abs(NetDebit(a)) > Threshold => a \in DOMAIN ReportBalances

\* the outstanding portion of account a: the residuals above 0.01 of its posted
\* invoice, bill, refund and receipt lines dated up to the end date
OutstandingOf(a) ==
    SumSet({ l \in ScopeLines(a) : /\ l.move_type \in InvoiceTypes
                                   /\ Abs(l.amount_residual) > Threshold },
           "amount_residual")

\* the closing balance of account a: outstanding only for a receivable or payable
\* account, debit - credit for any other
ClosingOf(a) ==
    IF Accounts[a].account_type \in RecPayTypes THEN OutstandingOf(a) ELSE NetDebit(a)

\* the signed amount an account line shows: debit - credit on the Trial Balance,
\* the amount, which carries no sign, on the Balance Sheet
LineShowsClosing(a, line) ==
    IF IsTB THEN line.debit - line.credit = ClosingOf(a)
    ELSE line.amount = Abs(ClosingOf(a))

ListsShown ==
    CASE IsTB -> { [lines |-> line_ids, groups |-> TBGroupOrder] }
      [] IsPL -> { [lines |-> line_ids, groups |-> IncomeGroups \o ExpenseGroups] }
      [] IsBS /\ ~wizard.horizontal_view ->
             { [lines |-> line_ids, groups |-> LiabilityGroups \o AssetGroups] }
      [] IsBS /\ wizard.horizontal_view ->
             { [lines |-> liability_line_ids, groups |-> LiabilityGroups],
               [lines |-> asset_line_ids, groups |-> AssetGroups] }

\* the Net Profit / Net Loss line beneath Capital Account
IsFoldedResult(line) == IsBS /\ line.name \in {"  Net Profit", "  Net Loss"}

\* the account a line of the report stands for
AccountOfLine(line) ==
    CHOOSE a \in ScopeAccounts : "  " \o Accounts[a].name = line.name

\* the accounts of the balance set that belong on a line under the group
AccountsDue(group_name) ==
    { a \in DOMAIN ReportBalances : /\ ClassifierOf(Accounts[a]) = group_name
                                    /\ Abs(ReportBalances[a]) >= Threshold }

\* the positions of the account lines under the group header at position i
AccountMembers(lines, i) == { j \in Members(lines, i) : ~IsFoldedResult(lines[j]) }

\* headers follow the group list, and no group has two headers
HeadersInGroupOrder(lines, groups) ==
    \A i, j \in DOMAIN lines :
        (i < j /\ lines[i].is_group /\ lines[j].is_group) =>
            \E k, n \in DOMAIN groups :
                k < n /\ groups[k] = lines[i].name /\ groups[n] = lines[j].name

\* under the header at position i stand all and only the accounts of its group, in
\* (code, name) order, the folded period result after them
MembersSorted(lines, i) ==
    /\ { lines[j].name : j \in AccountMembers(lines, i) }
           = { "  " \o Accounts[a].name : a \in AccountsDue(lines[i].name) }
    /\ Cardinality(AccountMembers(lines, i)) = Cardinality(AccountsDue(lines[i].name))
    /\ \A j, k \in AccountMembers(lines, i) :
           j < k => KeyLess(AccountOfLine(lines[j]), AccountOfLine(lines[k]))
    /\ \A j \in Members(lines, i), k \in AccountMembers(lines, i) :
           IsFoldedResult(lines[j]) => k < j
    /\ (AccountMembers(lines, i) = {}) => (IsBS /\ lines[i].name = "Capital Account")

\* every level-1 line stands under a group header, and a grand-total or net-result
\* line stands last
TotalLast(lines) ==
    /\ \A j \in DOMAIN lines : lines[j].level = 1 => GroupOfLine(lines, j) # ""
    /\ \A j \in DOMAIN lines :
           (lines[j].is_total \/ (IsPL /\ lines[j].is_net_result)) => j = Len(lines)
    /\ DOMAIN ReportBalances # {} =>
           (lines[Len(lines)].is_total \/ (IsPL /\ lines[Len(lines)].is_net_result))

\* C26: in every fresh report the groups appear in the order of the report's group
\* list, each header is followed by all and only its member account lines sorted by
\* (code, name), a header is emitted only for a group with an account line (Capital
\* Account of the Balance Sheet excepted), and the grand-total or net-result line is last
C26_LineOrderFollowsGroupOrder ==
    Fresh =>
        \A list \in ListsShown :
            /\ HeadersInGroupOrder(list.lines, list.groups)
            /\ \A i \in DOMAIN list.lines :
                   list.lines[i].is_group => MembersSorted(list.lines, i)
            /\ TotalLast(list.lines)

\* a fresh report with a group of two account lines and a second group
C26_Witness ==
    /\ Fresh
    /\ \E list \in ListsShown :
           /\ \E i \in DOMAIN list.lines :
                  list.lines[i].is_group /\ Cardinality(AccountMembers(list.lines, i)) >= 2
           /\ Cardinality({ i \in DOMAIN list.lines : list.lines[i].is_group }) >= 2


----------------------------------------------------------------------------
(* C27 *)

\* the data rows an export of a fresh generation for the wizard's current parameters
\* and the current ledger holds
FreshExcelRows ==
    ExcelRows(CASE IsTB -> TBExcelFile(wizard, ShownOf(FreshTable))
                [] IsPL -> PLExcelFile(wizard, ShownOf(FreshTable))
                [] IsBS -> BSExcelFile(wizard, FreshTable))

\* an export has just written another workbook
NewWorkbook == wizard'.excel_file # wizard.excel_file

\* C27: a download reflects the wizard's current parameters: whenever an export writes
\* a workbook, its data rows are those of a fresh generation for the current
\* parameters and the current ledger, never lines stored by an earlier run
C27_DownloadReflectsCurrentParameters ==
    [][NewWorkbook => ExcelRows(wizard'.excel_file) = FreshExcelRows]_vars


----------------------------------------------------------------------------
(* C28 *)

IsTotalLine(line) == line.is_total

IsContentLine(line) == ~line.is_total

\* the lines of a list without its Total, as (name, level, amount, is_group)
Content(lines) ==
    LET ls == SelectSeq(lines, IsContentLine)
    IN  [i \in 1..Len(ls) |-> <<ls[i].name, ls[i].level, ls[i].amount, ls[i].is_group>>]

\* the amount on the Total line of a list
TotalOf(lines) == SelectSeq(lines, IsTotalLine)[1].amount

\* a vertical list and the two horizontal lists show the same content
SameContent(vertical, liabilities, assets) ==
    /\ Content(liabilities) \o Content(assets) = Content(vertical)
    /\ Len(SelectSeq(vertical, IsTotalLine)) = 1
    /\ Len(SelectSeq(liabilities, IsTotalLine)) = 1
    /\ Len(SelectSeq(assets, IsTotalLine)) = 1
    /\ TotalOf(vertical) = Max(TotalOf(liabilities), TotalOf(assets))

\* the line tables of the two layouts show the same content
LayoutsAgree(vtable, htable) ==
    SameContent(One2many(vtable, "wizard_id", wizard.id),
                One2many(htable, "wizard_liab_id", wizard.id),
                One2many(htable, "wizard_asset_id", wizard.id))

\* C28: the vertical and the horizontal Balance Sheet are two layouts of the same
\* content: the freshly generated lists of the layout in use and the lists the other
\* layout gives for the same parameters and ledger agree, Total lines apart, as
\* sequences of (name, level, amount, is_group), and the vertical Total is built from
\* the two side totals the horizontal Totals show
C28_LayoutsShowSameContent ==
    (Fresh /\ IsBS) =>
        IF wizard.horizontal_view
        THEN LayoutsAgree(PrepareVerticalReportLines(<<>>, wizard, MoveLines), line_table)
        ELSE LayoutsAgree(line_table, PrepareHorizontalReportLines(<<>>, wizard, MoveLines))

\* a horizontal report with groups on both sides, a period result under Capital
\* Account and side totals that differ
C28_Witness ==
    /\ Fresh /\ IsBS /\ wizard.horizontal_view
    /\ Len(Content(liability_line_ids)) >= 4
    /\ Len(Content(asset_line_ids)) >= 2
    /\ \E i \in 1..Len(liability_line_ids) : IsFoldedResult(liability_line_ids[i])
    /\ TotalOf(liability_line_ids) # TotalOf(asset_line_ids)


----------------------------------------------------------------------------
(* C29 *)

\* the signed value of a net-result line: positive for Net Profit, negated for Net Loss
SignedNetResult(line) == IF line.name = "Net Profit" THEN line.amount ELSE -line.amount

\* what the accounts below the materiality threshold add to income minus expense
BelowThresholdResult ==
    SumSet({ [account |-> a,
              value |-> IF Accounts[a].account_type \in IncomeTypes
                        THEN NaturalBalance(a) ELSE -NaturalBalance(a)]
             : a \in { x \in CompanyAccounts :
                         /\ Accounts[x].account_type \in PLAccountTypes
                         /\ Abs(NaturalBalance(x)) < Threshold } },
           "value")

\* the period result the Balance Sheet would fold in for the wizard's company and dates
FoldedPeriodResult ==
    GetPeriodProfitLoss(MoveLines, wizard.start_date, wizard.end_date, wizard.company_id)

\* an income account stands in a group of expenses, or an expense account in a group of incomes
Misgrouped ==
    \E a \in CompanyAccounts :
        /\ Accounts[a].account_type \in PLAccountTypes
        /\ Abs(NaturalBalance(a)) >= Threshold
        /\ (Accounts[a].account_type \in IncomeTypes)
               # (ClassifyPL(Accounts[a]) \in SeqNames(IncomeGroups))

\* C29: the two period-result computations agree: the signed value on the net-result
\* line of a freshly generated Profit & Loss report equals what _get_period_profit_loss
\* returns for the same company, dates and ledger, less the contribution of the
\* accounts below the 0.01 threshold
C29_PeriodResultsAgree ==
    (Fresh /\ IsPL) =>
        \A i \in DOMAIN line_ids :
            line_ids[i].is_net_result =>
                SignedNetResult(line_ids[i]) = FoldedPeriodResult - BelowThresholdResult

\* the two computations agree whenever every account stands on the side of its type
ResultsAgreeUnlessMisgrouped ==
    (Fresh /\ IsPL /\ ~Misgrouped) =>
        \A i \in DOMAIN line_ids :
            line_ids[i].is_net_result =>
                SignedNetResult(line_ids[i]) = FoldedPeriodResult - BelowThresholdResult


----------------------------------------------------------------------------
(* C30 *)

\* no group name stands twice in a group-order list
NoDuplicates(groups) ==
    \A i, j \in DOMAIN groups : groups[i] = groups[j] => i = j

\* the group names of the group-order list(s) of the wizard's report
GroupsOfReport ==
    CASE IsTB -> SeqNames(TBGroupOrder)
      [] IsBS -> SeqNames(LiabilityGroups) \cup SeqNames(AssetGroups)
      [] IsPL -> SeqNames(IncomeGroups) \cup SeqNames(ExpenseGroups)

\* the accounts of the computed balance set that are at or above the threshold
MaterialAccounts == { a \in DOMAIN ReportBalances : Abs(ReportBalances[a]) >= Threshold }

\* C30: no account is lost or duplicated by grouping: the group-order lists have no
\* duplicates, and in a freshly generated report each account of the computed balance
\* set with an absolute balance of at least 0.01 is classified into a group of the
\* report's list(s) and stands on exactly one account line, under the header of that
\* group
C30_NoAccountLostOrDuplicated ==
    /\ NoDuplicates(TBGroupOrder)
    /\ NoDuplicates(LiabilityGroups \o AssetGroups)
    /\ NoDuplicates(IncomeGroups \o ExpenseGroups)
    /\ Fresh =>
           \A a \in MaterialAccounts :
               /\ ClassifierOf(Accounts[a]) \in GroupsOfReport
               /\ Cardinality(AccountLines(a)) = 1
               /\ \A i \in AccountLines(a) :
                      GroupOfLine(ShownLines, i) = ClassifierOf(Accounts[a])

\* a report with several accounts of the balance set, two of them in one group and
\* one in another
C30_Witness ==
    /\ Fresh
    /\ Cardinality(MaterialAccounts) >= 3
    /\ \E a, b, c \in MaterialAccounts :
           /\ a # b
           /\ ClassifierOf(Accounts[a]) = ClassifierOf(Accounts[b])
           /\ ClassifierOf(Accounts[c]) # ClassifierOf(Accounts[a])
           /\ AccountLines(a) # {} /\ AccountLines(b) # {} /\ AccountLines(c) # {}

============================================================================
